---- MODULE Spec2Model ----
(***************************************************************************)
(* Ghost Budget: the balance ledger and obligation engine.                 *)
(*                                                                         *)
(* The relational store (tables accounts and transactions, the balance     *)
(* trigger update_account_balance) and the client modules that write to    *)
(* it (supabase/transactions.js, supabase/accounts.js, supabase/debts.js). *)
(* Amounts are whole numbers of the smallest currency unit (NUMERIC(15,2) *)
(* holds hundredths exactly).  One user: row level security keeps every    *)
(* user's rows apart.                                                      *)
(***************************************************************************)
EXTENDS Integers, FiniteSets, Sequences, TLC

VARIABLES accounts, transactions, nextAccountId, nextTxId, last, calls

vars == <<accounts, transactions, nextAccountId, nextTxId, last, calls>>

(***************************************************************************)
(* Bounds of the model.                                                    *)
(***************************************************************************)
MaxTx == 3
MaxAmount == 2
MaxAccounts == 4
InitialSavings == 3
MaxEdited == 2
MaxListed == 1
MaxConcurrent == 2
MaxDebtOps == 2
MaxMilli == 30

NULL == 0
Amounts == 1..MaxAmount
AccountIds == 1..MaxAccounts
Counterparties == {"Alex", "Sam"}

(***************************************************************************)
(* The store as one value, so that a handler that issues several           *)
(* statements is the composition of their effects.                         *)
(***************************************************************************)
DB == [accounts |-> accounts, transactions |-> transactions,
       nextAccountId |-> nextAccountId, nextTxId |-> nextTxId]

Reply(db, error, data) == [db |-> db, error |-> error, data |-> data]

Remove(f, k) == [x \in DOMAIN f \ {k} |-> f[x]]

(* An UPDATE that takes money from a balance and never adds any. *)
AddBalanceDebitOnly(accs, id, delta) ==
    IF id \in DOMAIN accs /\ delta < 0
    THEN [accs EXCEPT ![id].balance = @ + delta]
    ELSE accs

(***************************************************************************)
(* UPDATE accounts SET balance = balance + delta WHERE id = ...            *)
(* (no row matches a NULL or unknown id).                                  *)
(***************************************************************************)
AddBalance(accs, id, delta) ==
    IF id \in DOMAIN accs
    THEN [accs EXCEPT ![id].balance = @ + delta]
    ELSE accs

(* A trigger that credits no destination account. *)
BalanceOnInsertSourceOnly(accs, new) ==
    IF new.type \in {"transfer", "debt_op"}
    THEN IF new.from_account_id # NULL
         THEN AddBalance(accs, new.from_account_id, 0 - new.amount)
         ELSE accs
    ELSE IF new.type = "expense"
    THEN AddBalance(accs, new.account_id, 0 - new.amount)
    ELSE IF new.type = "income"
    THEN AddBalance(accs, new.account_id, new.amount)
    ELSE accs

(* The trigger's INSERT branch. *)
BalanceOnInsert(accs, new) ==
    IF new.type \in {"transfer", "debt_op"}
    THEN LET a1 == IF new.from_account_id # NULL
                   THEN AddBalance(accs, new.from_account_id, 0 - new.amount)
                   ELSE accs
         IN  IF new.to_account_id # NULL
             THEN AddBalance(a1, new.to_account_id, new.amount)
             ELSE a1
    ELSE IF new.type = "expense"
    THEN AddBalance(accs, new.account_id, 0 - new.amount)
    ELSE IF new.type = "income"
    THEN AddBalance(accs, new.account_id, new.amount)
    ELSE accs

(* A DELETE branch that treats debt_op rows as it did before debt_op was   *)
(* added to the trigger: only transfers are rolled back on both accounts.  *)
BalanceOnDeleteTransferOnly(accs, old) ==
    IF old.type = "transfer"
    THEN AddBalance(AddBalance(accs, old.from_account_id, old.amount),
                    old.to_account_id, 0 - old.amount)
    ELSE IF old.type = "expense"
    THEN AddBalance(accs, old.account_id, old.amount)
    ELSE IF old.type = "income"
    THEN AddBalance(accs, old.account_id, 0 - old.amount)
    ELSE accs

(* The trigger's DELETE branch (also the first half of its UPDATE branch). *)
BalanceOnDelete(accs, old) ==
    IF old.type \in {"transfer", "debt_op"}
    THEN LET a1 == IF old.from_account_id # NULL
                   THEN AddBalance(accs, old.from_account_id, old.amount)
                   ELSE accs
         IN  IF old.to_account_id # NULL
             THEN AddBalance(a1, old.to_account_id, 0 - old.amount)
             ELSE a1
    ELSE IF old.type = "expense"
    THEN AddBalance(accs, old.account_id, old.amount)
    ELSE IF old.type = "income"
    THEN AddBalance(accs, old.account_id, 0 - old.amount)
    ELSE accs

(* An UPDATE branch that applies the new amount and leaves the old one in. *)
BalanceOnUpdateNoRollback(accs, old, new) ==
    IF old.amount # new.amount
    THEN BalanceOnInsert(accs, new)
    ELSE accs

(* An UPDATE branch that books the row as it is after every update. *)
BalanceOnUpdateBooksAgain(accs, old, new) == BalanceOnInsert(accs, new)

(* The trigger's UPDATE branch: only when the amount changed. *)
BalanceOnUpdate(accs, old, new) ==
    IF old.amount # new.amount
    THEN BalanceOnInsert(BalanceOnDelete(accs, old), new)
    ELSE accs

(* The trigger function as it was before it had an UPDATE branch. *)
update_account_balance_without_update(op, accs, old, new) ==
    CASE op = "INSERT" -> BalanceOnInsert(accs, new)
      [] op = "UPDATE" -> accs
      [] op = "DELETE" -> BalanceOnDelete(accs, old)

(* FOR EACH ROW trigger function, by TG_OP. *)
update_account_balance(op, accs, old, new) ==
    CASE op = "INSERT" -> BalanceOnInsert(accs, new)
      [] op = "UPDATE" -> BalanceOnUpdate(accs, old, new)
      [] op = "DELETE" -> BalanceOnDelete(accs, old)

(* CHECK constraint of table accounts: liability -> balance <= 0. *)
accounts_liability_balance_check(accs) ==
    \A id \in DOMAIN accs : accs[id].type = "liability" => accs[id].balance <= 0

(* A table whose references are not checked. *)
ForeignKeysUnchecked(accs, row) == TRUE

(* Foreign keys of a transactions row into accounts. *)
ForeignKeysHold(accs, row) ==
    \A ref \in {row.account_id, row.from_account_id, row.to_account_id,
                row.related_account_id} :
        ref = NULL \/ ref \in DOMAIN accs

(* A row of table transactions, columns not given are NULL / default.      *)
(* Every handler writes the day it runs as the date; the category and the  *)
(* note it writes play no part in what the store does with the row.        *)
TxRow(type, amount, account, from, to, isDebt, direction, related) ==
    [type |-> type, amount |-> amount, account_id |-> account,
     from_account_id |-> from, to_account_id |-> to, is_debt |-> isDebt,
     debt_direction |-> direction, related_account_id |-> related,
     date |-> "today", category_id |-> NULL, note |-> "",
     created_at |-> NULL]

(***************************************************************************)
(* supabase.from('transactions').insert(row).select().single()             *)
(* `up` is whether the request reaches the store and is answered.  The     *)
(* row's checks, the trigger and the accounts constraint run in the        *)
(* statement's own transaction: all of it is applied or none.              *)
(***************************************************************************)
InsertTransaction(db, row, up) ==
    LET id   == db.nextTxId
        new  == [row EXCEPT !.created_at = id]
        accs == update_account_balance("INSERT", db.accounts, new, new)
    IN  IF ~up THEN Reply(db, "network", NULL)
        ELSE IF row.amount <= 0 THEN Reply(db, "check", NULL)
        ELSE IF ~ForeignKeysHold(db.accounts, row) THEN Reply(db, "foreign_key", NULL)
        ELSE IF ~accounts_liability_balance_check(accs) THEN Reply(db, "check", NULL)
        ELSE Reply([db EXCEPT !.accounts = accs,
                              !.transactions = (id :> new) @@ @,
                              !.nextTxId = id + 1],
                   "none", id)

(* supabase.from('transactions').delete().eq('id', id)                     *)
DeleteTransactionRow(db, id, up) ==
    IF ~up THEN Reply(db, "network", NULL)
    ELSE IF id \notin DOMAIN db.transactions THEN Reply(db, "none", NULL)
    ELSE LET old  == db.transactions[id]
             accs == update_account_balance("DELETE", db.accounts, old, old)
         IN  IF ~accounts_liability_balance_check(accs)
             THEN Reply(db, "check", NULL)
             ELSE Reply([db EXCEPT !.accounts = accs,
                                   !.transactions = Remove(@, id)],
                        "none", id)

(* An update on a table without the CHECK on amount. *)
UpdateTransactionRowUnchecked(db, id, updates, expected, up) ==
    IF ~up THEN Reply(db, "network", NULL)
    ELSE IF \/ id \notin DOMAIN db.transactions
            \/ (expected # NULL /\ db.transactions[id].created_at # expected)
    THEN Reply(db, "no_rows", NULL)
    ELSE LET old  == db.transactions[id]
             new  == [c \in DOMAIN old |->
                        IF c \in DOMAIN updates THEN updates[c] ELSE old[c]]
             accs == update_account_balance("UPDATE", db.accounts, old, new)
         IN  IF ~accounts_liability_balance_check(accs)
             THEN Reply(db, "check", NULL)
             ELSE Reply([db EXCEPT !.accounts = accs,
                                   !.transactions = [@ EXCEPT ![id] = new]],
                        "none", id)

(***************************************************************************)
(* supabase.from('transactions').update(allowedUpdates).eq('id', id)       *)
(*   [.eq('created_at', expected)].select().single()                       *)
(* `updates` holds the columns to set; `expected` is NULL for no lock.     *)
(* With no matching row .single() answers with an error.                   *)
(***************************************************************************)
UpdateTransactionRow(db, id, updates, expected, up) ==
    IF ~up THEN Reply(db, "network", NULL)
    ELSE IF \/ id \notin DOMAIN db.transactions
            \/ (expected # NULL /\ db.transactions[id].created_at # expected)
    THEN Reply(db, "no_rows", NULL)
    ELSE LET old  == db.transactions[id]
             new  == [c \in DOMAIN old |->
                        IF c \in DOMAIN updates THEN updates[c] ELSE old[c]]
             accs == update_account_balance("UPDATE", db.accounts, old, new)
         IN  IF new.amount <= 0 THEN Reply(db, "check", NULL)
             ELSE IF ~accounts_liability_balance_check(accs)
             THEN Reply(db, "check", NULL)
             ELSE Reply([db EXCEPT !.accounts = accs,
                                   !.transactions = [@ EXCEPT ![id] = new]],
                        "none", id)

(***************************************************************************)
(* Table accounts.                                                         *)
(***************************************************************************)
AccountRow(type, balance, counterparty) ==
    [type |-> type, balance |-> balance, counterparty |-> counterparty,
     status |-> "active"]

(* supabase.from('accounts').insert(row).select().single()                 *)
InsertAccount(db, row, up) ==
    LET id   == db.nextAccountId
        accs == (id :> row) @@ db.accounts
    IN  IF ~up THEN Reply(db, "network", NULL)
        ELSE IF ~accounts_liability_balance_check(accs) THEN Reply(db, "check", NULL)
        ELSE Reply([db EXCEPT !.accounts = accs, !.nextAccountId = id + 1],
                   "none", id)

(* supabase.from('accounts').update(updates).eq('id', id)                  *)
UpdateAccountRow(db, id, updates, up) ==
    IF ~up THEN Reply(db, "network", NULL)
    ELSE IF id \notin DOMAIN db.accounts THEN Reply(db, "no_rows", NULL)
    ELSE LET old  == db.accounts[id]
             new  == [c \in DOMAIN old |->
                        IF c \in DOMAIN updates THEN updates[c] ELSE old[c]]
             accs == [db.accounts EXCEPT ![id] = new]
         IN  IF ~accounts_liability_balance_check(accs)
             THEN Reply(db, "check", NULL)
             ELSE Reply([db EXCEPT !.accounts = accs], "none", id)

(* Statement number k of a handler is answered unless it is the one that   *)
(* the run `f` makes fail (f = 0: every request is answered).              *)
Up(f, k) == f # k

(***************************************************************************)
(* debts.js                                                                *)
(***************************************************************************)

(* The rows .eq('type', type).eq('counterparty', counterparty) selects.    *)
CounterpartyRows(accs, type, counterparty) ==
    {id \in DOMAIN accs :
        accs[id].type = type /\ accs[id].counterparty = counterparty}

(* select * from accounts where user_id, type, counterparty ...            *)
(* .maybeSingle(): the row, NULL for none, an error for more than one.     *)
FindCounterparty(db, counterparty, type, up) ==
    LET existing == CounterpartyRows(db.accounts, type, counterparty)
    IN  IF ~up THEN Reply(db, "network", NULL)
        ELSE IF Cardinality(existing) > 1 THEN Reply(db, "multiple_rows", NULL)
        ELSE IF existing # {} THEN Reply(db, "none", CHOOSE id \in existing : TRUE)
        ELSE Reply(db, "none", NULL)

(* A resolver that never looks for an existing account. *)
alwaysCreateCounterparty(db, counterparty, type, f, k) ==
    InsertAccount(db, AccountRow(type, 0, counterparty), Up(f, k + 2))

(* Statements k+1 (select ... maybeSingle) and k+2 (insert).               *)
findOrCreateCounterparty(db, counterparty, type, f, k) ==
    LET existing == FindCounterparty(db, counterparty, type, Up(f, k + 1))
    IN  IF existing.error # "none" THEN existing
        ELSE IF existing.data # NULL THEN existing
        ELSE InsertAccount(db, AccountRow(type, 0, counterparty), Up(f, k + 2))

(* The debt_op rows of lend and borrow, and the expense row. *)
LentRowReversed(amount, fromAccountId, counterpartyAccountId) ==
    TxRow("debt_op", amount, NULL, counterpartyAccountId, fromAccountId,
          TRUE, "lent", counterpartyAccountId)

LentRow(amount, fromAccountId, counterpartyAccountId) ==
    TxRow("debt_op", amount, NULL, fromAccountId, counterpartyAccountId,
          TRUE, "lent", counterpartyAccountId)

BorrowedRowReversed(amount, toAccountId, counterpartyAccountId) ==
    TxRow("debt_op", amount, NULL, toAccountId, counterpartyAccountId,
          TRUE, "borrowed", counterpartyAccountId)

BorrowedRow(amount, toAccountId, counterpartyAccountId) ==
    TxRow("debt_op", amount, NULL, counterpartyAccountId, toAccountId,
          TRUE, "borrowed", counterpartyAccountId)

ExpenseRow(amount, accountId) ==
    TxRow("expense", amount, accountId, NULL, NULL, FALSE, "", NULL)

Lend(db, amount, fromAccountId, counterparty, f) ==
    IF amount <= 0 THEN Reply(db, "invalid", NULL)
    ELSE IF counterparty = "" THEN Reply(db, "invalid", NULL)
    ELSE IF fromAccountId = NULL THEN Reply(db, "invalid", NULL)
    ELSE LET cp == findOrCreateCounterparty(db, counterparty, "receivable", f, 0)
         IN  IF cp.error # "none" THEN Reply(cp.db, cp.error, NULL)
             ELSE InsertTransaction(cp.db, LentRow(amount, fromAccountId, cp.data),
                                    Up(f, 3))

Borrow(db, amount, toAccountId, counterparty, f) ==
    IF amount <= 0 THEN Reply(db, "invalid", NULL)
    ELSE IF counterparty = "" THEN Reply(db, "invalid", NULL)
    ELSE IF toAccountId = NULL THEN Reply(db, "invalid", NULL)
    ELSE LET cp == findOrCreateCounterparty(db, counterparty, "liability", f, 0)
         IN  IF cp.error # "none" THEN Reply(cp.db, cp.error, NULL)
             ELSE InsertTransaction(cp.db, BorrowedRow(amount, toAccountId, cp.data),
                                    Up(f, 3))

(* Statement 1 reads the counterparty's name for the note only; its error  *)
(* is not looked at.  Statement 2 is the insert.                           *)
CollectDebt(db, amount, toAccountId, counterpartyAccountId, f) ==
    IF amount <= 0 THEN Reply(db, "invalid", NULL)
    ELSE IF toAccountId = NULL THEN Reply(db, "invalid", NULL)
    ELSE IF counterpartyAccountId = NULL THEN Reply(db, "invalid", NULL)
    ELSE InsertTransaction(db,
             TxRow("debt_op", amount, NULL, counterpartyAccountId, toAccountId,
                   TRUE, "return", counterpartyAccountId),
             Up(f, 2))

RepayDebt(db, amount, fromAccountId, counterpartyAccountId, f) ==
    IF amount <= 0 THEN Reply(db, "invalid", NULL)
    ELSE IF fromAccountId = NULL THEN Reply(db, "invalid", NULL)
    ELSE IF counterpartyAccountId = NULL THEN Reply(db, "invalid", NULL)
    ELSE InsertTransaction(db,
             TxRow("debt_op", amount, NULL, fromAccountId, counterpartyAccountId,
                   TRUE, "payment", counterpartyAccountId),
             Up(f, 2))

(* The debt_op row of a collection. *)
ReturnRow(amount, toAccountId, counterpartyAccountId) ==
    TxRow("debt_op", amount, NULL, counterpartyAccountId, toAccountId,
          TRUE, "return", counterpartyAccountId)

(* The forgiveness row: an expense on the counterparty account. *)
ForgiveRow(amount, counterpartyAccountId) ==
    TxRow("expense", amount, counterpartyAccountId, NULL, NULL, TRUE,
          "forgive", counterpartyAccountId)

(* An overpayment booked whole as a return. *)
OverpaymentUnsplit(db, amount, balance, toAccountId, counterpartyAccountId, f) ==
    InsertTransaction(db, ReturnRow(amount, toAccountId, counterpartyAccountId),
                      Up(f, 2))

(* Case 1, amount > balance: the debt is closed at balance (statement 2)   *)
(* and the excess is an income (statement 3).  The second insert's error   *)
(* is returned; the first insert stays.                                    *)
Overpayment(db, amount, balance, toAccountId, counterpartyAccountId, f) ==
    LET debtTx == InsertTransaction(db,
                      ReturnRow(balance, toAccountId, counterpartyAccountId),
                      Up(f, 2))
    IN  IF debtTx.error # "none" THEN debtTx
        ELSE InsertTransaction(debtTx.db,
                 TxRow("income", amount - balance, toAccountId, NULL, NULL,
                       FALSE, "", NULL),
                 Up(f, 3))

(* A forced closure that forgives the balance read before the return. *)
ForcedClosureForgiveAll(db, amount, balance, toAccountId, counterpartyAccountId, f) ==
    LET debtTx == InsertTransaction(db,
                      ReturnRow(amount, toAccountId, counterpartyAccountId),
                      Up(f, 2))
    IN  IF debtTx.error # "none" THEN debtTx
        ELSE InsertTransaction(debtTx.db,
                 ForgiveRow(balance, counterpartyAccountId), Up(f, 3))

(* Case 2, amount < balance and closeDebt: what was paid is collected      *)
(* (statement 2) and the remainder is forgiven (statement 3).              *)
ForcedClosure(db, amount, balance, toAccountId, counterpartyAccountId, f) ==
    LET debtTx == InsertTransaction(db,
                      ReturnRow(amount, toAccountId, counterpartyAccountId),
                      Up(f, 2))
    IN  IF debtTx.error # "none" THEN debtTx
        ELSE InsertTransaction(debtTx.db,
                 ForgiveRow(balance - amount, counterpartyAccountId), Up(f, 3))

(* A collection that books the whole balance whatever was paid. *)
NormalCollectionOfBalance(db, amount, balance, toAccountId, counterpartyAccountId, f) ==
    InsertTransaction(db, ReturnRow(balance, toAccountId, counterpartyAccountId),
                      Up(f, 2))

(* Case 3, exact or partial payment: one debt_op insert (statement 2). *)
NormalCollection(db, amount, balance, toAccountId, counterpartyAccountId, f) ==
    InsertTransaction(db, ReturnRow(amount, toAccountId, counterpartyAccountId),
                      Up(f, 2))

(* The tests that pick the branch of collectDebtSmart: the amount paid is  *)
(* compared with the balance as it is.                                     *)
collectDebtSmartCase(amount, balance, closeDebt) ==
    IF amount > balance /\ balance > 0 THEN "overpayment"
    ELSE IF amount < balance /\ closeDebt THEN "forced_closure"
    ELSE "normal"

(* Statement 1: select the counterparty account; then one of the cases.    *)
CollectDebtSmart(db, amount, toAccountId, counterpartyAccountId, closeDebt, f) ==
    IF amount <= 0 THEN Reply(db, "invalid", NULL)
    ELSE IF toAccountId = NULL THEN Reply(db, "invalid", NULL)
    ELSE IF counterpartyAccountId = NULL THEN Reply(db, "invalid", NULL)
    ELSE IF ~Up(f, 1) THEN Reply(db, "network", NULL)
    ELSE IF counterpartyAccountId \notin DOMAIN db.accounts
    THEN Reply(db, "no_rows", NULL)
    ELSE LET balance == db.accounts[counterpartyAccountId].balance
             case    == collectDebtSmartCase(amount, balance, closeDebt)
         IN  IF case = "overpayment"
             THEN Overpayment(db, amount, balance, toAccountId,
                              counterpartyAccountId, f)
             ELSE IF case = "forced_closure"
             THEN ForcedClosure(db, amount, balance, toAccountId,
                                counterpartyAccountId, f)
             ELSE NormalCollection(db, amount, balance, toAccountId,
                                   counterpartyAccountId, f)

Abs(n) == IF n < 0 THEN 0 - n ELSE n

(* remainingAmount < 0.01: less than one hundredth.                        *)
SettledBelow == 1

(* A forgiveDebt without the test on the remaining amount. *)
ForgiveDebtOfAnything(db, counterpartyAccountId, f) ==
    IF counterpartyAccountId = NULL THEN Reply(db, "invalid", NULL)
    ELSE IF ~Up(f, 1) THEN Reply(db, "network", NULL)
    ELSE IF counterpartyAccountId \notin DOMAIN db.accounts
    THEN Reply(db, "no_rows", NULL)
    ELSE LET remainingAmount == Abs(db.accounts[counterpartyAccountId].balance)
             tx == InsertTransaction(db,
                       ForgiveRow(remainingAmount, counterpartyAccountId),
                       Up(f, 2))
         IN  IF tx.error # "none" THEN tx
             ELSE Reply(UpdateAccountRow(tx.db, counterpartyAccountId,
                            [status |-> "closed", balance |-> 0],
                            Up(f, 3)).db,
                        "none", tx.data)

(* Statement 1: select; 2: the forgiveness insert; 3: the account update,  *)
(* whose outcome is not looked at.                                         *)
ForgiveDebt(db, counterpartyAccountId, f) ==
    IF counterpartyAccountId = NULL THEN Reply(db, "invalid", NULL)
    ELSE IF ~Up(f, 1) THEN Reply(db, "network", NULL)
    ELSE IF counterpartyAccountId \notin DOMAIN db.accounts
    THEN Reply(db, "no_rows", NULL)
    ELSE LET remainingAmount == Abs(db.accounts[counterpartyAccountId].balance)
         IN  IF remainingAmount < SettledBelow THEN Reply(db, "settled", NULL)
             ELSE LET tx == InsertTransaction(db,
                               TxRow("expense", remainingAmount,
                                     counterpartyAccountId, NULL, NULL, TRUE,
                                     "forgive", counterpartyAccountId),
                               Up(f, 2))
                  IN  IF tx.error # "none" THEN tx
                      ELSE Reply(UpdateAccountRow(tx.db, counterpartyAccountId,
                                     [status |-> "closed", balance |-> 0],
                                     Up(f, 3)).db,
                                 "none", tx.data)

(* A split that lets the share equal the whole expense. *)
CreateExpenseWithDebtAllowEqual(db, expenseAmount, accountId, debtAmount, counterparty, f) ==
    IF expenseAmount <= 0 THEN Reply(db, "invalid", NULL)
    ELSE IF accountId = NULL THEN Reply(db, "invalid", NULL)
    ELSE IF debtAmount <= 0 THEN Reply(db, "invalid", NULL)
    ELSE IF debtAmount > expenseAmount THEN Reply(db, "invalid", NULL)
    ELSE IF counterparty = "" THEN Reply(db, "invalid", NULL)
    ELSE LET expense == InsertTransaction(db, ExpenseRow(expenseAmount, accountId),
                                          Up(f, 1))
         IN  IF expense.error # "none" THEN expense
             ELSE LET cp == findOrCreateCounterparty(expense.db, counterparty,
                                                     "receivable", f, 1)
                  IN  IF cp.error # "none" THEN Reply(cp.db, cp.error, NULL)
                      ELSE InsertTransaction(cp.db,
                               LentRow(debtAmount, accountId, cp.data), Up(f, 4))

(* Statement 1: the expense insert; 2, 3: findOrCreateCounterparty;        *)
(* 4: the lend insert.  Nothing undoes statement 1 when a later one fails. *)
CreateExpenseWithDebt(db, expenseAmount, accountId, debtAmount, counterparty, f) ==
    IF expenseAmount <= 0 THEN Reply(db, "invalid", NULL)
    ELSE IF accountId = NULL THEN Reply(db, "invalid", NULL)
    ELSE IF debtAmount <= 0 THEN Reply(db, "invalid", NULL)
    ELSE IF debtAmount >= expenseAmount THEN Reply(db, "invalid", NULL)
    ELSE IF counterparty = "" THEN Reply(db, "invalid", NULL)
    ELSE LET expense == InsertTransaction(db, ExpenseRow(expenseAmount, accountId),
                                          Up(f, 1))
         IN  IF expense.error # "none" THEN expense
             ELSE LET cp == findOrCreateCounterparty(expense.db, counterparty,
                                                     "receivable", f, 1)
                  IN  IF cp.error # "none" THEN Reply(cp.db, cp.error, NULL)
                      ELSE InsertTransaction(cp.db,
                               LentRow(debtAmount, accountId, cp.data), Up(f, 4))

(***************************************************************************)
(* transactions.js, accounts.js                                            *)
(***************************************************************************)
(* A create that lets a transfer name one account twice. *)
CreateTransactionAnyTransfer(db, type, amount, account_id, from_account_id, to_account_id, f) ==
    IF amount <= 0 THEN Reply(db, "invalid", NULL)
    ELSE IF type = "transfer"
            /\ (from_account_id = NULL \/ to_account_id = NULL)
    THEN Reply(db, "invalid", NULL)
    ELSE IF type # "transfer" /\ account_id = NULL
    THEN Reply(db, "invalid", NULL)
    ELSE InsertTransaction(db,
             TxRow(type, amount,
                   IF type # "transfer" THEN account_id ELSE NULL,
                   IF type = "transfer" THEN from_account_id ELSE NULL,
                   IF type = "transfer" THEN to_account_id ELSE NULL,
                   FALSE, "", NULL),
             Up(f, 1))

CreateTransaction(db, type, amount, account_id, from_account_id, to_account_id, f) ==
    IF amount <= 0 THEN Reply(db, "invalid", NULL)
    ELSE IF type = "transfer"
            /\ (from_account_id = NULL \/ to_account_id = NULL)
    THEN Reply(db, "invalid", NULL)
    ELSE IF type = "transfer" /\ from_account_id = to_account_id
    THEN Reply(db, "invalid", NULL)
    ELSE IF type # "transfer" /\ account_id = NULL
    THEN Reply(db, "invalid", NULL)
    ELSE InsertTransaction(db,
             TxRow(type, amount,
                   IF type # "transfer" THEN account_id ELSE NULL,
                   IF type = "transfer" THEN from_account_id ELSE NULL,
                   IF type = "transfer" THEN to_account_id ELSE NULL,
                   FALSE, "", NULL),
             Up(f, 1))

DeleteTransaction(db, id, f) == DeleteTransactionRow(db, id, Up(f, 1))

(* An update object sent to the store as it came. *)
allUpdates(updates) == updates

(* allowedUpdates: amount, date, category_id and note are copied from      *)
(* `updates` when they are there; any other key is dropped.                *)
allowedUpdates(updates) ==
    [c \in DOMAIN updates \cap {"amount", "date", "category_id", "note"} |->
        updates[c]]

(* An update that never compares created_at. *)
UpdateTransactionNoLock(db, id, updates, expectedCreatedAt, f) ==
    UpdateTransactionRow(db, id, allowedUpdates(updates), NULL, Up(f, 1))

(* updateTransaction(id, updates, expectedCreatedAt): the editable columns *)
(* are amount, date, category_id and note.                                 *)
UpdateTransaction(db, id, updates, expectedCreatedAt, f) ==
    UpdateTransactionRow(db, id, allowedUpdates(updates), expectedCreatedAt,
                         Up(f, 1))

UpdateAccount(db, id, updates, f) == UpdateAccountRow(db, id, updates, Up(f, 1))

(***************************************************************************)
(* The state after set-up: an asset account and a savings account, no      *)
(* entries, nobody in the middle of a call.                                *)
(***************************************************************************)
Clients == {"c1", "c2"}

Idle == [op |-> "idle"]

Init ==
    /\ accounts = (1 :> AccountRow("asset", 0, "")) @@
                  (2 :> AccountRow("savings", InitialSavings, ""))
    /\ transactions = <<>>
    /\ nextAccountId = 3
    /\ nextTxId = 1
    /\ last = [op |-> "init", error |-> "none", data |-> NULL, client |-> "c1"]
    /\ calls = [c \in Clients |-> Idle]

(***************************************************************************)
(* What the forms pass: an amount, one of the user's own accounts          *)
(* (populateDebtAccountSelect lists assets and savings), a counterparty    *)
(* name, or a counterparty account chosen from a list.                     *)
(***************************************************************************)
AmountInputs == 1..MaxAmount
CounterpartyInputs == {"Alex"}
OwnAccounts == {id \in DOMAIN accounts : accounts[id].type \in {"asset", "savings"}}
Receivables == {id \in DOMAIN accounts : accounts[id].type = "receivable"}
Liabilities == {id \in DOMAIN accounts : accounts[id].type = "liability"}

(* A handler returned `r`: the store is what it left, the caller has the   *)
(* error (or none) and the data.  Ids are never used twice; the model      *)
(* stops handing them out at MaxTx entries and MaxAccounts accounts.       *)
Answers(c, r, op) ==
    /\ r.db.nextTxId <= MaxTx + 1
    /\ r.db.nextAccountId <= MaxAccounts + 1
    /\ accounts' = r.db.accounts
    /\ transactions' = r.db.transactions
    /\ nextAccountId' = r.db.nextAccountId
    /\ nextTxId' = r.db.nextTxId
    /\ last' = [op |-> op, error |-> r.error, data |-> r.data, client |-> c]

Returns(r, op) == Answers("c1", r, op) /\ UNCHANGED calls

(* In the runs explored a request fails, if at all, after the handler's    *)
(* first write: the numbers are the handler's statements.                  *)
createTransaction ==
    \E type \in {"expense", "income", "transfer"}, amount \in 0..MaxAmount,
       a \in OwnAccounts, b \in OwnAccounts :
        Returns(CreateTransaction(DB, type, amount, a, a, b, 0), "createTransaction")

deleteTransaction ==
    \E id \in DOMAIN transactions :
        Returns(DeleteTransaction(DB, id, 0), "deleteTransaction")

(* The caller sends the created_at it holds: that of the entry, or that of *)
(* another or of no entry; the entry may be gone (an id not stored).       *)
updateTransaction ==
    \E id \in DOMAIN transactions \cup {nextTxId}, amount \in AmountInputs :
        \E expectedCreatedAt \in
               {IF id \in DOMAIN transactions THEN transactions[id].created_at
                                              ELSE id,
                nextTxId} :
            Returns(UpdateTransaction(DB, id, [amount |-> amount],
                                      expectedCreatedAt, 0),
                    "updateTransaction")

callFindOrCreateCounterparty ==
    \E counterparty \in CounterpartyInputs, type \in {"receivable", "liability"} :
        Returns(findOrCreateCounterparty(DB, counterparty, type, 0, 0),
                "findOrCreateCounterparty")

lend ==
    \E amount \in AmountInputs, from \in OwnAccounts,
       counterparty \in CounterpartyInputs, f \in {0, 3} :
        Returns(Lend(DB, amount, from, counterparty, f), "lend")

borrow ==
    \E amount \in AmountInputs, to \in OwnAccounts,
       counterparty \in CounterpartyInputs, f \in {0, 3} :
        Returns(Borrow(DB, amount, to, counterparty, f), "borrow")

collectDebt ==
    \E amount \in AmountInputs, to \in OwnAccounts, cp \in Receivables :
        Returns(CollectDebt(DB, amount, to, cp, 0), "collectDebt")

repayDebt ==
    \E amount \in AmountInputs, from \in OwnAccounts, cp \in Liabilities :
        Returns(RepayDebt(DB, amount, from, cp, 0), "repayDebt")

collectDebtSmart ==
    \E amount \in AmountInputs, to \in OwnAccounts, cp \in Receivables,
       closeDebt \in BOOLEAN, f \in {0, 3} :
        Returns(CollectDebtSmart(DB, amount, to, cp, closeDebt, f),
                "collectDebtSmart")

forgiveDebt ==
    \E cp \in Receivables \cup Liabilities, f \in {0, 3} :
        Returns(ForgiveDebt(DB, cp, f), "forgiveDebt")

createExpenseWithDebt ==
    \E expenseAmount \in AmountInputs, debtAmount \in AmountInputs,
       accountId \in OwnAccounts, counterparty \in CounterpartyInputs,
       f \in {0, 3, 4} :
        Returns(CreateExpenseWithDebt(DB, expenseAmount, accountId, debtAmount,
                                      counterparty, f),
                "createExpenseWithDebt")

(***************************************************************************)
(* The engine, one call at a time.                                         *)
(***************************************************************************)
Next ==
    \/ deleteTransaction
    \/ callFindOrCreateCounterparty
    \/ lend
    \/ borrow
    \/ collectDebt
    \/ repayDebt
    \/ collectDebtSmart
    \/ forgiveDebt
    \/ createExpenseWithDebt

Spec == Init /\ [][Next]_vars

(***************************************************************************)
(* The ledger: the handlers that write one row of table transactions,     *)
(* each write with the trigger's balance update.                           *)
(***************************************************************************)
NextLedger ==
    \/ createTransaction
    \/ updateTransaction
    \/ deleteTransaction
    \/ borrow
    \/ repayDebt

SpecLedger == Init /\ [][NextLedger]_vars

(***************************************************************************)
(* Two browser sessions of one user editing entries.  Each session has its *)
(* own edit form: handleEditTransaction loads the entry into it,           *)
(* handleSaveTransactionEdit sends the amount typed with the created_at    *)
(* that was loaded, handleCancelEdit closes the form.                      *)
(***************************************************************************)
Stores(db) ==
    /\ accounts' = db.accounts
    /\ transactions' = db.transactions
    /\ nextAccountId' = db.nextAccountId
    /\ nextTxId' = db.nextTxId

isValidAmount(amount) == amount > 0

handleEditTransaction(c) ==
    \E id \in DOMAIN transactions :
        LET tx == transactions[id]
        IN  /\ calls[c].op = "idle"
            /\ IF tx.is_debt
               THEN /\ last' = [op |-> "handleEditTransaction", error |-> "is_debt",
                                data |-> id, client |-> c]
                    /\ UNCHANGED calls
               ELSE /\ last' = [op |-> "handleEditTransaction", error |-> "none",
                                data |-> id, client |-> c]
                    /\ calls' = [calls EXCEPT ![c] =
                                    [op |-> "editing", id |-> id, tx |-> tx]]
            /\ UNCHANGED <<accounts, transactions, nextAccountId, nextTxId>>

handleSaveTransactionEdit(c) ==
    \E amount \in 0..MaxAmount :
        /\ calls[c].op = "editing"
        /\ IF ~isValidAmount(amount)
           THEN /\ last' = [op |-> "handleSaveTransactionEdit",
                            error |-> "invalid", data |-> NULL, client |-> c]
                /\ UNCHANGED <<accounts, transactions, nextAccountId, nextTxId, calls>>
           ELSE LET r == UpdateTransaction(DB, calls[c].id, [amount |-> amount],
                                           calls[c].tx.created_at, 0)
                IN  /\ Answers(c, r, "handleSaveTransactionEdit")
                    /\ calls' = IF r.error = "none"
                                THEN [calls EXCEPT ![c] = Idle]
                                ELSE calls

handleCancelEdit(c) ==
    /\ calls[c].op = "editing"
    /\ calls' = [calls EXCEPT ![c] = Idle]
    /\ UNCHANGED <<accounts, transactions, nextAccountId, nextTxId, last>>

(* The sessions edit among MaxEdited entries. *)
NextEdit ==
    \/ createTransaction /\ nextTxId' <= MaxEdited + 1
    \/ lend /\ nextTxId' <= MaxEdited + 1
    \/ deleteTransaction
    \/ \E c \in Clients : handleEditTransaction(c)
    \/ \E c \in Clients : handleSaveTransactionEdit(c)
    \/ \E c \in Clients : handleCancelEdit(c)

SpecEdit == Init /\ [][NextEdit]_vars

(***************************************************************************)
(* Two sessions of one user in the handlers that resolve a counterparty.   *)
(* Every await of a handler is a step: the statements of                   *)
(* findOrCreateCounterparty (select, then insert) and the debt_op insert   *)
(* that follows it in lend, borrow and createExpenseWithDebt.              *)
(***************************************************************************)
Resolving(op, type, counterparty, amount, account) ==
    [op |-> op, pc |-> "select", type |-> type, counterparty |-> counterparty,
     amount |-> amount, account |-> account, cp |-> NULL]

Finishes(c, r, op) == Answers(c, r, op) /\ calls' = [calls EXCEPT ![c] = Idle]

(* After the account is known: the resolver itself returns it, the other   *)
(* handlers go on to their debt_op insert.                                 *)
Resolved(c, call, r) ==
    IF call.op = "findOrCreateCounterparty"
    THEN Finishes(c, r, call.op)
    ELSE /\ Stores(r.db)
         /\ r.db.nextAccountId <= MaxAccounts + 1
         /\ calls' = [calls EXCEPT ![c] = [call EXCEPT !.pc = "debt_op",
                                                       !.cp = r.data]]
         /\ UNCHANGED last

(* The resolver's select for the call `call` of session c. *)
Selects(c, call) ==
    LET existing == FindCounterparty(DB, call.counterparty, call.type, TRUE)
    IN  IF existing.error # "none" THEN Finishes(c, existing, call.op)
        ELSE IF existing.data # NULL THEN Resolved(c, call, existing)
        ELSE /\ calls' = [calls EXCEPT ![c] = [call EXCEPT !.pc = "insert"]]
             /\ UNCHANGED <<accounts, transactions, nextAccountId, nextTxId, last>>

(* The sessions lend one unit from, and borrow one unit to, the asset      *)
(* account.                                                                *)
ConcurrentAmounts == {1}
ConcurrentAccounts == {id \in OwnAccounts : accounts[id].type = "asset"}

beginFindOrCreateCounterparty(c) ==
    \E counterparty \in CounterpartyInputs, type \in {"receivable", "liability"} :
        /\ calls[c].op = "idle"
        /\ Selects(c, Resolving("findOrCreateCounterparty", type, counterparty,
                                0, NULL))

beginLend(c) ==
    \E amount \in ConcurrentAmounts, from \in ConcurrentAccounts,
       counterparty \in CounterpartyInputs :
        /\ calls[c].op = "idle"
        /\ Selects(c, Resolving("lend", "receivable", counterparty, amount, from))

beginBorrow(c) ==
    \E amount \in ConcurrentAmounts, to \in ConcurrentAccounts,
       counterparty \in CounterpartyInputs :
        /\ calls[c].op = "idle"
        /\ Selects(c, Resolving("borrow", "liability", counterparty, amount, to))

(* The validations and the expense insert, up to the resolver's select. *)
beginCreateExpenseWithDebt(c) ==
    \E expenseAmount \in AmountInputs, debtAmount \in ConcurrentAmounts,
       accountId \in ConcurrentAccounts, counterparty \in CounterpartyInputs :
        /\ calls[c].op = "idle"
        /\ IF debtAmount >= expenseAmount
           THEN Finishes(c, Reply(DB, "invalid", NULL), "createExpenseWithDebt")
           ELSE LET expense == InsertTransaction(DB,
                                   ExpenseRow(expenseAmount, accountId), TRUE)
                IN  IF expense.error # "none"
                    THEN Finishes(c, expense, "createExpenseWithDebt")
                    ELSE /\ Stores(expense.db)
                         /\ expense.db.nextTxId <= MaxTx + 1
                         /\ calls' = [calls EXCEPT ![c] =
                                        Resolving("createExpenseWithDebt",
                                                  "receivable", counterparty,
                                                  debtAmount, accountId)]
                         /\ UNCHANGED last

selectCounterparty(c) ==
    /\ calls[c].op = "createExpenseWithDebt"
    /\ calls[c].pc = "select"
    /\ Selects(c, calls[c])

insertCounterparty(c) ==
    /\ calls[c].op \in {"findOrCreateCounterparty", "lend", "borrow",
                        "createExpenseWithDebt"}
    /\ calls[c].pc = "insert"
    /\ LET created == InsertAccount(DB,
                          AccountRow(calls[c].type, 0, calls[c].counterparty), TRUE)
       IN  IF created.error # "none" THEN Finishes(c, created, calls[c].op)
           ELSE Resolved(c, calls[c], created)

insertDebtOp(c) ==
    /\ calls[c].op \in {"lend", "borrow", "createExpenseWithDebt"}
    /\ calls[c].pc = "debt_op"
    /\ Finishes(c, InsertTransaction(DB,
                      IF calls[c].op = "borrow"
                      THEN BorrowedRow(calls[c].amount, calls[c].account, calls[c].cp)
                      ELSE LentRow(calls[c].amount, calls[c].account, calls[c].cp),
                      TRUE),
                calls[c].op)

NextResolve ==
    \/ \E c \in Clients : beginFindOrCreateCounterparty(c)
    \/ \E c \in Clients : beginLend(c)
    \/ \E c \in Clients : beginBorrow(c)
    \/ \E c \in Clients : beginCreateExpenseWithDebt(c)
    \/ \E c \in Clients : selectCounterparty(c)
    \/ \E c \in Clients : insertCounterparty(c)
    \/ \E c \in Clients : insertDebtOp(c)

SpecResolve == Init /\ [][NextResolve]_vars

(***************************************************************************)
(* Properties.                                                             *)
(***************************************************************************)

(* What one entry adds to the balance of account id: +amount as income     *)
(* target or as destination, -amount as expense target or as source.       *)
Effect(row, id) ==
    IF row.type \in {"transfer", "debt_op"}
    THEN (IF row.to_account_id = id THEN row.amount ELSE 0)
         - (IF row.from_account_id = id THEN row.amount ELSE 0)
    ELSE IF row.account_id # id THEN 0
    ELSE IF row.type = "income" THEN row.amount
    ELSE IF row.type = "expense" THEN 0 - row.amount
    ELSE 0

RECURSIVE SumEffects(_, _, _)
SumEffects(txs, ids, id) ==
    IF ids = {} THEN 0
    ELSE LET t == CHOOSE x \in ids : TRUE
         IN  Effect(txs[t], id) + SumEffects(txs, ids \ {t}, id)

NetEffect(txs, id) == SumEffects(txs, DOMAIN txs, id)

(* The balance an account was created with: the two accounts of Init, and  *)
(* 0 for every counterparty account.                                       *)
OpeningBalance(id) == IF id = 2 THEN InitialSavings ELSE 0

(* C1: under entry inserts, amount updates and deletes, every account's    *)
(* balance is its balance at creation plus the net effect of the entries   *)
(* that exist now.                                                         *)
C1_BalanceConservation ==
    \A id \in DOMAIN accounts :
        accounts[id].balance = OpeningBalance(id) + NetEffect(transactions, id)

(* An amount update has just been applied, an entry was deleted before,    *)
(* and a debt_op entry and a changed balance are there.                    *)
C1_Witness ==
    /\ last.op = "updateTransaction" /\ last.error = "none"
    /\ nextTxId = MaxTx + 1
    /\ Cardinality(DOMAIN transactions) = MaxTx - 1
    /\ \E t \in DOMAIN transactions : transactions[t].type = "debt_op"
    /\ \E id \in DOMAIN accounts : accounts[id].balance # OpeningBalance(id)

(* C2: every receivable has balance >= 0 and every liability has           *)
(* balance <= 0, after every operation.                                    *)
C2_SignInvariant ==
    \A id \in DOMAIN accounts :
        /\ accounts[id].type = "receivable" => accounts[id].balance >= 0
        /\ accounts[id].type = "liability" => accounts[id].balance <= 0

RowsOfAnyKind ==
    LET refs == DOMAIN accounts
    IN  {TxRow(type, amount, a, NULL, NULL, FALSE, "", NULL) :
            type \in {"expense", "income"}, amount \in Amounts, a \in refs}
        \cup
        {TxRow(type, amount, NULL, pair[1], pair[2], type = "debt_op", "", NULL) :
            type \in {"transfer", "debt_op"}, amount \in Amounts,
            pair \in (refs \cup {NULL}) \X (refs \cup {NULL})}

(* C7: inserting an entry of any kind and then deleting it leaves every    *)
(* account's balance, and the entries, as they were before the insert.     *)
C7_InsertDeleteRoundTrip ==
    \A row \in RowsOfAnyKind :
        LET ins == InsertTransaction(DB, row, TRUE)
            del == DeleteTransactionRow(ins.db, ins.data, TRUE)
        IN  ins.error = "none" =>
                /\ del.error = "none"
                /\ del.db.accounts = accounts
                /\ del.db.transactions = transactions

(* Entries were inserted and the last of them has just been deleted, with  *)
(* an entry of another account still there.                                *)
C7_Witness ==
    /\ last.op = "deleteTransaction" /\ last.error = "none"
    /\ last.data \notin DOMAIN transactions
    /\ DOMAIN transactions # {}
    /\ \A id \in DOMAIN accounts :
          accounts[id].balance = OpeningBalance(id) + NetEffect(transactions, id)

(* C8: two findOrCreateCounterparty calls in a row with the same type and  *)
(* name return the same account, and one account has that type and name.  *)
C8_ResolveTwice ==
    \A counterparty \in Counterparties, type \in {"receivable", "liability"} :
        LET first  == findOrCreateCounterparty(DB, counterparty, type, 0, 0)
            second == findOrCreateCounterparty(first.db, counterparty, type, 0, 0)
        IN  first.error = "none" =>
                /\ second.error = "none"
                /\ second.data = first.data
                /\ Cardinality(CounterpartyRows(second.db.accounts, type,
                                                counterparty)) = 1

(* A call has just returned an account that an earlier call had created    *)
(* (an entry already refers to it).                                        *)
C8_Witness ==
    /\ last.op = "findOrCreateCounterparty" /\ last.error = "none"
    /\ \E t \in DOMAIN transactions :
          transactions[t].related_account_id = last.data
    /\ Cardinality(CounterpartyRows(accounts, accounts[last.data].type,
                                    accounts[last.data].counterparty)) = 1

(* C5: collectDebtSmart persists nothing when it returns an error: if the  *)
(* second entry is not written, neither is the first, nor its balances.    *)
C5_SmartCollectionAllOrNothing ==
    [][(last'.op = "collectDebtSmart" /\ last'.error # "none")
          => (transactions' = transactions /\ accounts' = accounts)]_vars

(* C6: createExpenseWithDebt ends with both entries written or with none,  *)
(* and with no balance changed when it returns an error.                   *)
C6_ExpenseWithDebtAllOrNothing ==
    [][last'.op = "createExpenseWithDebt"
          => \/ /\ last'.error = "none"
                /\ Cardinality(DOMAIN transactions')
                     = Cardinality(DOMAIN transactions) + 2
             \/ /\ last'.error # "none"
                /\ transactions' = transactions
                /\ \A id \in DOMAIN accounts :
                      accounts'[id].balance = accounts[id].balance]_vars

(* C10: a successful createExpenseWithDebt lowers the paying account by    *)
(* exactly expenseAmount in total and raises the counterparty's receivable *)
(* by exactly debtAmount (the two entries are the ones it has written).    *)
C10_ExpenseWithDebtBalances ==
    [][(last'.op = "createExpenseWithDebt" /\ last'.error = "none")
          => LET expense == transactions'[nextTxId]
                 debt    == transactions'[nextTxId + 1]
                 paying  == expense.account_id
                 cp      == debt.to_account_id
             IN  /\ accounts'[paying].balance
                      = accounts[paying].balance - expense.amount
                 /\ accounts'[cp].balance
                      = (IF cp \in DOMAIN accounts THEN accounts[cp].balance ELSE 0)
                        + debt.amount]_vars

(* C3: a save of an edit form whose entry has changed since the form       *)
(* loaded it (another session's save succeeded) returns an error and       *)
(* changes neither the entries nor any balance.                            *)
C3_StaleTokenRejected ==
    [][\A c \in Clients :
          (/\ calls[c].op = "editing"
           /\ calls[c].id \in DOMAIN transactions
           /\ transactions[calls[c].id] # calls[c].tx
           /\ last'.op = "handleSaveTransactionEdit"
           /\ last'.client = c
           /\ last'.error # "invalid")
          => (/\ last'.error # "none"
              /\ transactions' = transactions
              /\ accounts' = accounts)]_vars

(* C9: at any moment at most one account has a given type and              *)
(* counterparty name.                                                      *)
C9_CounterpartyUnique ==
    \A counterparty \in Counterparties, type \in {"receivable", "liability"} :
        Cardinality(CounterpartyRows(accounts, type, counterparty)) <= 1

(* C11: createExpenseWithDebt with debtAmount >= expenseAmount (equality   *)
(* included) returns an error and writes no entry, creates no account and  *)
(* changes no balance.                                                     *)
C11_ShareNotBelowExpenseRejected ==
    \A expenseAmount \in Amounts, debtAmount \in Amounts,
       accountId \in OwnAccounts, counterparty \in Counterparties :
        debtAmount >= expenseAmount =>
            LET r == CreateExpenseWithDebt(DB, expenseAmount, accountId,
                                           debtAmount, counterparty, 0)
            IN  r.error # "none" /\ r.db = DB

(* The call has just been refused for its share, with entries and a        *)
(* counterparty account already stored.                                    *)
C11_Witness ==
    /\ last.op = "createExpenseWithDebt" /\ last.error = "invalid"
    /\ transactions # <<>>
    /\ Receivables # {}

(* Where a handler's run may fail: at none of its statements (0) or at     *)
(* one of them.                                                            *)
Failures == 0..4

(* The entries a reply has added to the stored ones, and whether a stored  *)
(* entry is the row that was sent (created_at is set by the store).        *)
NewEntries(r) == DOMAIN r.db.transactions \ DOMAIN transactions
IsRow(stored, row) == [stored EXCEPT !.created_at = row.created_at] = row
KeepsEntries(r) == \A t \in DOMAIN transactions : r.db.transactions[t] = transactions[t]

(* C12: collectDebtSmart with amount > balance > 0 writes exactly two      *)
(* entries, a return of exactly the balance from the receivable to the     *)
(* destination account and an income of exactly amount - balance on the    *)
(* destination account, and leaves the receivable at 0.                    *)
C12_OverpaymentSplit ==
    \A to \in OwnAccounts, cp \in Receivables, closeDebt \in BOOLEAN,
       excess \in Amounts, f \in Failures :
        LET balance == accounts[cp].balance
            amount  == balance + excess
            r == CollectDebtSmart(DB, amount, to, cp, closeDebt, f)
        IN  balance > 0 =>
                /\ f = 0 => r.error = "none"
                /\ r.error = "none" =>
                   /\ NewEntries(r) = {nextTxId, nextTxId + 1}
                   /\ KeepsEntries(r)
                   /\ IsRow(r.db.transactions[nextTxId], ReturnRow(balance, to, cp))
                   /\ IsRow(r.db.transactions[nextTxId + 1],
                            TxRow("income", excess, to, NULL, NULL, FALSE, "", NULL))
                   /\ r.db.accounts[cp].balance = 0

(* An overpayment has just been collected: the last entry is the income    *)
(* for the excess, the one before it the return, the receivable is at 0.   *)
C12_Witness ==
    /\ last.op = "collectDebtSmart" /\ last.error = "none"
    /\ last.data \in DOMAIN transactions
    /\ transactions[last.data].type = "income"
    /\ (last.data - 1) \in DOMAIN transactions
    /\ transactions[last.data - 1].debt_direction = "return"
    /\ accounts[transactions[last.data - 1].from_account_id].balance = 0

(* C13: collectDebtSmart with amount < balance and closeDebt writes a      *)
(* return of exactly amount and a forgiveness of exactly balance - amount  *)
(* against the receivable; the receivable ends at 0 and the destination    *)
(* account is higher by exactly amount.                                    *)
C13_ForcedClosureSplit ==
    \A to \in OwnAccounts, cp \in Receivables, amount \in Amounts, f \in Failures :
        LET balance == accounts[cp].balance
            r == CollectDebtSmart(DB, amount, to, cp, TRUE, f)
        IN  amount < balance =>
                /\ f = 0 => r.error = "none"
                /\ r.error = "none" =>
                   /\ NewEntries(r) = {nextTxId, nextTxId + 1}
                   /\ KeepsEntries(r)
                   /\ IsRow(r.db.transactions[nextTxId], ReturnRow(amount, to, cp))
                   /\ IsRow(r.db.transactions[nextTxId + 1],
                            ForgiveRow(balance - amount, cp))
                   /\ r.db.accounts[cp].balance = 0
                   /\ r.db.accounts[to].balance = accounts[to].balance + amount

(* A forced closure has just been made: the last entry is the forgiveness, *)
(* the one before it the return, the receivable is at 0.                   *)
C13_Witness ==
    /\ last.op = "collectDebtSmart" /\ last.error = "none"
    /\ last.data \in DOMAIN transactions
    /\ transactions[last.data].debt_direction = "forgive"
    /\ (last.data - 1) \in DOMAIN transactions
    /\ transactions[last.data - 1].debt_direction = "return"
    /\ accounts[transactions[last.data].account_id].balance = 0

(* C14: after a forced closure by collectDebtSmart (its last entry is the  *)
(* forgiveness of the remainder) the counterparty account's status is      *)
(* closed.                                                                 *)
C14_ForcedClosureClosesAccount ==
    [][(/\ last'.op = "collectDebtSmart" /\ last'.error = "none"
        /\ transactions'[last'.data].debt_direction = "forgive")
          => accounts'[transactions'[last'.data].account_id].status = "closed"]_vars

(* C15: collectDebtSmart with amount = balance, or with amount < balance   *)
(* and no closeDebt, writes exactly one return entry of amount; when       *)
(* amount < balance the receivable ends at balance - amount > 0 and an     *)
(* open relationship stays open.                                           *)
C15_NormalCollection ==
    \A to \in OwnAccounts, cp \in Receivables, amount \in Amounts,
       closeDebt \in BOOLEAN, f \in Failures :
        LET balance == accounts[cp].balance
            r == CollectDebtSmart(DB, amount, to, cp, closeDebt, f)
        IN  (amount = balance \/ (amount < balance /\ ~closeDebt)) =>
                /\ f = 0 => r.error = "none"
                /\ r.error = "none" =>
                   /\ NewEntries(r) = {nextTxId}
                   /\ KeepsEntries(r)
                   /\ IsRow(r.db.transactions[nextTxId], ReturnRow(amount, to, cp))
                   /\ r.db.accounts[cp].balance = balance - amount
                   /\ amount < balance =>
                         /\ r.db.accounts[cp].balance > 0
                         /\ r.db.accounts[cp].status = accounts[cp].status

(* A partial payment has just been collected without closing: one return   *)
(* entry, the receivable still above 0 and active.                         *)
C15_Witness ==
    /\ last.op = "collectDebtSmart" /\ last.error = "none"
    /\ last.data \in DOMAIN transactions
    /\ transactions[last.data].debt_direction = "return"
    /\ accounts[transactions[last.data].from_account_id].balance > 0
    /\ accounts[transactions[last.data].from_account_id].status = "active"

(* The balance of account id in accs, 0 for an account not there yet. *)
BalanceIn(accs, id) == IF id \in DOMAIN accs THEN accs[id].balance ELSE 0

(* C16: lend with valid input writes one debt_op entry with direction      *)
(* lent from the given account to the counterparty's receivable account;   *)
(* the given account ends lower by exactly amount and the receivable       *)
(* higher by exactly amount.                                               *)
C16_Lend ==
    \A amount \in Amounts, from \in OwnAccounts, counterparty \in Counterparties,
       f \in Failures :
        LET r  == Lend(DB, amount, from, counterparty, f)
            cp == r.db.transactions[nextTxId].to_account_id
        IN  /\ f = 0 => r.error = "none"
            /\ r.error = "none" =>
               /\ NewEntries(r) = {nextTxId}
               /\ KeepsEntries(r)
               /\ CounterpartyRows(r.db.accounts, "receivable", counterparty) = {cp}
               /\ IsRow(r.db.transactions[nextTxId], LentRow(amount, from, cp))
               /\ r.db.accounts[from].balance = accounts[from].balance - amount
               /\ r.db.accounts[cp].balance = BalanceIn(accounts, cp) + amount

(* A second loan to the same counterparty has just been written on the     *)
(* receivable the first one created.                                       *)
C16_Witness ==
    /\ last.op = "lend" /\ last.error = "none"
    /\ transactions[last.data].debt_direction = "lent"
    /\ accounts[transactions[last.data].to_account_id].type = "receivable"
    /\ accounts[transactions[last.data].to_account_id].balance
         > transactions[last.data].amount

(* C17: borrow with valid input writes one debt_op entry with direction    *)
(* borrowed from the counterparty's liability account to the given         *)
(* account; the given account ends higher by exactly amount and the        *)
(* liability lower by exactly amount.                                      *)
C17_Borrow ==
    \A amount \in Amounts, to \in OwnAccounts, counterparty \in Counterparties,
       f \in Failures :
        LET r  == Borrow(DB, amount, to, counterparty, f)
            cp == r.db.transactions[nextTxId].from_account_id
        IN  /\ f = 0 => r.error = "none"
            /\ r.error = "none" =>
               /\ NewEntries(r) = {nextTxId}
               /\ KeepsEntries(r)
               /\ CounterpartyRows(r.db.accounts, "liability", counterparty) = {cp}
               /\ IsRow(r.db.transactions[nextTxId], BorrowedRow(amount, to, cp))
               /\ r.db.accounts[to].balance = accounts[to].balance + amount
               /\ r.db.accounts[cp].balance = BalanceIn(accounts, cp) - amount

(* A second borrowing from the same counterparty has just been written on  *)
(* the liability the first one created.                                    *)
C17_Witness ==
    /\ last.op = "borrow" /\ last.error = "none"
    /\ transactions[last.data].debt_direction = "borrowed"
    /\ accounts[transactions[last.data].from_account_id].type = "liability"
    /\ accounts[transactions[last.data].from_account_id].balance
         < 0 - transactions[last.data].amount

(* C18: a forgiveDebt that returns without error has written exactly one   *)
(* expense entry with direction forgive and amount |balance| against the   *)
(* counterparty account, and the account is closed with balance 0.         *)
C18_ForgiveDebtCloses ==
    [][(last'.op = "forgiveDebt" /\ last'.error = "none")
          => LET row == transactions'[last'.data]
                 cp  == row.account_id
             IN  /\ DOMAIN transactions' = DOMAIN transactions \cup {last'.data}
                 /\ last'.data \notin DOMAIN transactions
                 /\ row.type = "expense"
                 /\ row.debt_direction = "forgive"
                 /\ row.amount = Abs(accounts[cp].balance)
                 /\ accounts'[cp].status = "closed"
                 /\ accounts'[cp].balance = 0]_vars

(* C19: updateTransaction called with an expected created_at that differs *)
(* from the stored one, or for an id that is not stored, returns an error  *)
(* and leaves the entries and every balance unchanged.                     *)
C19_StaleOrMissingRejected ==
    \A id \in 1..(MaxTx + 1), expectedCreatedAt \in 0..(MaxTx + 1),
       amount \in Amounts :
        LET r == UpdateTransaction(DB, id, [amount |-> amount],
                                   expectedCreatedAt, 0)
        IN  (\/ id \notin DOMAIN transactions
             \/ (/\ expectedCreatedAt # NULL
                 /\ transactions[id].created_at # expectedCreatedAt)) =>
                /\ r.error # "none"
                /\ r.db = DB

(* An update has just been refused while entries are stored and a balance  *)
(* has moved.                                                              *)
C19_Witness ==
    /\ last.op = "updateTransaction" /\ last.error = "no_rows"
    /\ transactions # <<>>
    /\ \E id \in DOMAIN accounts : accounts[id].balance # OpeningBalance(id)

(* Inputs the entry points may be given: an amount that is missing (0),    *)
(* negative or positive, an account that is missing or stored, a           *)
(* counterparty name that is missing or given.                             *)
AnyAmount == (0 - 1)..MaxAmount
AnyAccount == {NULL} \cup DOMAIN accounts
AnyCounterparty == {""} \cup Counterparties
Rejected(r) == LET reply == r IN reply.error # "none" /\ reply.db = DB

(* C20: createTransaction, lend, borrow, collectDebt, collectDebtSmart,    *)
(* repayDebt and createExpenseWithDebt reject a missing, zero or negative  *)
(* amount, a missing account or counterparty and a transfer from an        *)
(* account to itself, and then write nothing and change no balance.        *)
C20_InvalidInputRejected ==
    /\ \A type \in {"expense", "income"}, amount \in AnyAmount, a \in AnyAccount :
          (amount <= 0 \/ a = NULL)
          => Rejected(CreateTransaction(DB, type, amount, a, NULL, NULL, 0))
    /\ \A amount \in AnyAmount, from \in AnyAccount, to \in AnyAccount :
          (amount <= 0 \/ from = NULL \/ to = NULL \/ from = to)
          => Rejected(CreateTransaction(DB, "transfer", amount, NULL, from, to, 0))
    /\ \A amount \in AnyAmount, a \in AnyAccount, counterparty \in AnyCounterparty :
          (amount <= 0 \/ a = NULL \/ counterparty = "")
          => /\ Rejected(Lend(DB, amount, a, counterparty, 0))
             /\ Rejected(Borrow(DB, amount, a, counterparty, 0))
    /\ \A amount \in AnyAmount, a \in AnyAccount, cp \in AnyAccount,
          closeDebt \in BOOLEAN :
          (amount <= 0 \/ a = NULL \/ cp = NULL)
          => /\ Rejected(CollectDebt(DB, amount, a, cp, 0))
             /\ Rejected(RepayDebt(DB, amount, a, cp, 0))
             /\ Rejected(CollectDebtSmart(DB, amount, a, cp, closeDebt, 0))
    /\ \A expenseAmount \in AnyAmount, debtAmount \in AnyAmount,
          a \in AnyAccount, counterparty \in AnyCounterparty :
          (expenseAmount <= 0 \/ debtAmount <= 0 \/ a = NULL \/ counterparty = "")
          => Rejected(CreateExpenseWithDebt(DB, expenseAmount, a, debtAmount,
                                            counterparty, 0))

(* A create has just been refused for its input while entries are stored   *)
(* and a liability exists.                                                 *)
C20_Witness ==
    /\ last.op = "createTransaction" /\ last.error = "invalid"
    /\ transactions # <<>>
    /\ Liabilities # {}

(***************************************************************************)
(* Accounts: editing and deleting an account, and the delete handlers of   *)
(* the transaction list.                                                   *)
(***************************************************************************)

(* ON DELETE SET NULL of account_id, from_account_id and to_account_id.    *)
SetNull(row, id) ==
    [row EXCEPT !.account_id      = IF @ = id THEN NULL ELSE @,
                !.from_account_id = IF @ = id THEN NULL ELSE @,
                !.to_account_id   = IF @ = id THEN NULL ELSE @]

(* The entries that refer to account `id` as target, source or             *)
(* destination.                                                            *)
ReferringTo(txs, id) ==
    {t \in DOMAIN txs : \/ txs[t].account_id = id
                        \/ txs[t].from_account_id = id
                        \/ txs[t].to_account_id = id}

(***************************************************************************)
(* supabase.from('accounts').delete().eq('id', id)                         *)
(* related_account_id REFERENCES accounts(id) without an ON DELETE rule    *)
(* (DATABASE.md): a row that refers to the account in that column stops    *)
(* the delete; the other three references are set to NULL.                 *)
(***************************************************************************)
DeleteAccountRow(db, id, up) ==
    IF ~up THEN Reply(db, "network", NULL)
    ELSE IF id \notin DOMAIN db.accounts THEN Reply(db, "none", NULL)
    ELSE IF \E t \in DOMAIN db.transactions :
                db.transactions[t].related_account_id = id
    THEN Reply(db, "foreign_key", NULL)
    ELSE LET txs == db.transactions
         IN  Reply([db EXCEPT !.accounts = Remove(@, id),
                              !.transactions =
                                  [t \in DOMAIN txs |-> SetNull(txs[t], id)]],
                   "none", id)

(* deleteAccount of the module that also has getTransactionCount and       *)
(* deleteAccountWithTransactions: the delete statement and nothing else.   *)
DeleteAccount(db, id, f) == DeleteAccountRow(db, id, Up(f, 1))

(* deleteAccount of supabase/accounts.js.  Statement 1 selects one entry   *)
(* that refers to the account (its error is not looked at: with no answer  *)
(* `txs` is undefined and the delete goes ahead); statement 2 deletes.     *)
DeleteAccountGuarded(db, id, f) ==
    IF Up(f, 1) /\ ReferringTo(db.transactions, id) # {}
    THEN Reply(db, "has_transactions", NULL)
    ELSE DeleteAccountRow(db, id, Up(f, 2))

(* What the account form can send as a balance. *)
BalanceInputs == (0 - 1)..1

(* handleSaveAccountChanges: the balance typed is sent as it is. *)
updateAccount ==
    \E id \in DOMAIN accounts, balance \in BalanceInputs :
        Returns(UpdateAccount(DB, id, [balance |-> balance], 0), "updateAccount")

(* Either module's deleteAccount, whichever the build exports. *)
deleteAccount ==
    \E id \in DOMAIN accounts, guarded \in BOOLEAN :
        Returns(IF guarded THEN DeleteAccountGuarded(DB, id, 0)
                           ELSE DeleteAccount(DB, id, 0),
                "deleteAccount")

(* getTransactions({ limit }): the newest `limit` entries, newest first    *)
(* (entries are dated the day they are written, so the order by date and   *)
(* created_at is the order of writing); no answer gives the empty list.    *)
RECURSIVE NewestFirst(_, _)
NewestFirst(ids, limit) ==
    IF ids = {} \/ limit = 0 THEN <<>>
    ELSE LET newest == CHOOSE t \in ids : \A u \in ids : u <= t
         IN  <<newest>> \o NewestFirst(ids \ {newest}, limit - 1)

getTransactions(db, limit, up) ==
    IF up THEN NewestFirst(DOMAIN db.transactions, limit) ELSE <<>>

(* The limit handleCascadeDelete asks for. *)
CascadeLimit == 1000

(* for (const tx of relatedTx) await transactions.deleteTransaction(tx.id) *)
(* statement k is the first delete; no result is looked at.                *)
RECURSIVE DeleteEach(_, _, _, _)
DeleteEach(db, ids, f, k) ==
    IF ids = <<>> THEN db
    ELSE DeleteEach(DeleteTransactionRow(db, Head(ids), Up(f, k)).db,
                    Tail(ids), f, k + 1)

(***************************************************************************)
(* handleCascadeDelete once the modal's account id is read.  Statement 1   *)
(* is getTransactions, 2.. are the deletes, the last one is deleteAccount  *)
(* (`guarded`: the one of supabase/accounts.js).  The handler returns      *)
(* nothing and looks at no result.                                         *)
(***************************************************************************)
CascadeDelete(db, accountId, guarded, f) ==
    LET allTx     == getTransactions(db, CascadeLimit, Up(f, 1))
        relatedTx == SelectSeq(allTx,
                         LAMBDA t :
                             \/ db.transactions[t].related_account_id = accountId
                             \/ db.transactions[t].from_account_id = accountId
                             \/ db.transactions[t].to_account_id = accountId)
        deleted   == DeleteEach(db, relatedTx, f, 2)
        fails     == f = Len(relatedTx) + 2
    IN  Reply(IF guarded
              THEN DeleteAccountGuarded(deleted, accountId,
                                        IF fails THEN 2 ELSE 0).db
              ELSE DeleteAccount(deleted, accountId,
                                 IF fails THEN 1 ELSE 0).db,
              "none", NULL)

(* The cascade modal of a session: open for an account, or closed. *)
Cascade(accountId) == [op |-> "cascade", accountId |-> accountId]

(* tx.related_account_id || tx.from_account_id || tx.to_account_id *)
RelatedAccountId(tx) ==
    IF tx.related_account_id # NULL THEN tx.related_account_id
    ELSE IF tx.from_account_id # NULL THEN tx.from_account_id
    ELSE tx.to_account_id

(* handleDeleteTransaction of the transaction form that knows debt         *)
(* entries: for one of those it opens the cascade modal and deletes        *)
(* nothing; any other entry is deleted.                                    *)
handleDeleteTransaction ==
    \E id \in DOMAIN transactions :
        LET tx == transactions[id]
        IN  IF tx.is_debt \/ tx.type = "debt_op"
            THEN /\ calls' = [calls EXCEPT !["c1"] = Cascade(RelatedAccountId(tx))]
                 /\ last' = [op |-> "handleDeleteTransaction", error |-> "none",
                             data |-> NULL, client |-> "c1"]
                 /\ UNCHANGED <<accounts, transactions, nextAccountId, nextTxId>>
            ELSE Returns(DeleteTransaction(DB, id, 0), "handleDeleteTransaction")

(* handleDeleteTransaction of ui/forms/transaction-form.js: the entry is   *)
(* deleted whatever it is.                                                 *)
handleDeleteTransactionDirect ==
    \E id \in DOMAIN transactions :
        Returns(DeleteTransaction(DB, id, 0), "handleDeleteTransactionDirect")

(* The modal's confirm button; `if (!accountId) return`. *)
handleCascadeDelete ==
    /\ calls["c1"].op = "cascade"
    /\ calls["c1"].accountId # NULL
    /\ \E guarded \in BOOLEAN, f \in {0, 2} :
           Answers("c1", CascadeDelete(DB, calls["c1"].accountId, guarded, f),
                   "handleCascadeDelete")
    /\ calls' = [calls EXCEPT !["c1"] = Idle]

(* The modal's cancel button. *)
closeCascadeModal ==
    /\ calls["c1"].op = "cascade"
    /\ calls' = [calls EXCEPT !["c1"] = Idle]
    /\ last' = [op |-> "closeModal", error |-> "none", data |-> NULL,
                client |-> "c1"]
    /\ UNCHANGED <<accounts, transactions, nextAccountId, nextTxId>>

(***************************************************************************)
(* The account form next to the operations that write the entries and the  *)
(* counterparty accounts it meets; at most MaxListed entries.              *)
(***************************************************************************)
NextAccounts ==
    \/ createTransaction /\ nextTxId' <= MaxListed + 1
    \/ lend /\ nextTxId' <= MaxListed + 1
    \/ borrow /\ nextTxId' <= MaxListed + 1
    \/ updateAccount
    \/ deleteAccount

SpecAccounts == Init /\ [][NextAccounts]_vars

(***************************************************************************)
(* The delete handlers of the transaction list next to the debt            *)
(* operations whose entries they delete.                                   *)
(***************************************************************************)
NextCascade ==
    \/ lend
    \/ borrow
    \/ collectDebt
    \/ repayDebt
    \/ forgiveDebt
    \/ handleDeleteTransaction
    \/ handleDeleteTransactionDirect
    \/ handleCascadeDelete
    \/ closeCascadeModal

SpecCascade == Init /\ [][NextCascade]_vars

(***************************************************************************)
(* C21: updateAccount never leaves a receivable with a balance below 0 or  *)
(* a liability with a balance above 0 that it did not find there: an       *)
(* update asking for such a balance returns an error and the stored        *)
(* balance stays what it was.                                              *)
(***************************************************************************)
C21_UpdateAccountKeepsSign ==
    [][last'.op = "updateAccount" =>
          \A id \in DOMAIN accounts :
              /\ id \in DOMAIN accounts'
              /\ (\/ accounts'[id].type = "receivable" /\ accounts'[id].balance < 0
                  \/ accounts'[id].type = "liability" /\ accounts'[id].balance > 0)
                     => /\ accounts'[id].balance = accounts[id].balance
                        /\ last'.error # "none"]_vars

(***************************************************************************)
(* C22: deleteAccount on an account that an entry refers to as target,     *)
(* source or destination returns an error and leaves the account and the   *)
(* entries as they were.                                                   *)
(***************************************************************************)
C22_ReferencedAccountKept ==
    [][last'.op = "deleteAccount" =>
          \A id \in DOMAIN accounts :
              (ReferringTo(transactions, id) # {} /\ last'.data = id)
                  => /\ last'.error # "none"
                     /\ accounts' = accounts
                     /\ transactions' = transactions]_vars

(***************************************************************************)
(* C23: when handleCascadeDelete has run for a counterparty account, no    *)
(* entry is left whose related account, source or destination is that      *)
(* account, and the account is no longer stored.                           *)
(***************************************************************************)
C23_CascadeRemovesRelationship ==
    [][last'.op = "handleCascadeDelete" =>
          LET accountId == calls["c1"].accountId
          IN  /\ accountId \notin DOMAIN accounts'
              /\ \A t \in DOMAIN transactions' :
                     /\ transactions'[t].related_account_id # accountId
                     /\ transactions'[t].from_account_id # accountId
                     /\ transactions'[t].to_account_id # accountId]_vars

(***************************************************************************)
(* C24: a step that removes an entry marked is_debt removes the whole      *)
(* relationship with it: afterwards the counterparty account is not        *)
(* stored and no entry has it as related account, source or destination.   *)
(***************************************************************************)
C24_DebtEntryNeverDeletedAlone ==
    [][\A id \in DOMAIN transactions :
           (transactions[id].is_debt /\ id \notin DOMAIN transactions')
               => LET accountId == transactions[id].related_account_id
                  IN  /\ accountId \notin DOMAIN accounts'
                      /\ \A t \in DOMAIN transactions' :
                             /\ transactions'[t].related_account_id # accountId
                             /\ transactions'[t].from_account_id # accountId
                             /\ transactions'[t].to_account_id # accountId]_vars

(* Update objects with keys of every kind: the amount and a note, or       *)
(* neither, next to a kind, account references, obligation fields or a     *)
(* creation timestamp.                                                     *)
UpdateObjects ==
    {edit @@ other :
        edit \in {<<>>} \cup {[amount |-> a, note |-> "n"] : a \in Amounts},
        other \in {<<>>,
                   [type |-> "income"],
                   [type |-> "transfer", from_account_id |-> 2, to_account_id |-> 1],
                   [account_id |-> 2],
                   [is_debt |-> TRUE, debt_direction |-> "lent",
                    related_account_id |-> 1],
                   [created_at |-> NULL]}}

FrameColumns ==
    {"type", "account_id", "from_account_id", "to_account_id", "is_debt",
     "debt_direction", "related_account_id", "created_at"}

(***************************************************************************)
(* C25: whatever the updates object holds, updateTransaction leaves the    *)
(* entry stored with the same kind, account references, obligation fields  *)
(* and creation timestamp, and leaves every other entry as it was.         *)
(***************************************************************************)
C25_UpdateTransactionFrame ==
    \A id \in DOMAIN transactions, updates \in UpdateObjects :
      \A expectedCreatedAt \in {NULL, transactions[id].created_at} :
        LET r == UpdateTransaction(DB, id, updates, expectedCreatedAt, 0)
        IN  /\ DOMAIN r.db.transactions = DOMAIN transactions
            /\ \A c \in FrameColumns :
                   r.db.transactions[id][c] = transactions[id][c]
            /\ \A t \in DOMAIN transactions \ {id} :
                   r.db.transactions[t] = transactions[t]

(* An entry has been updated, and an update object with a new amount, a    *)
(* kind and account references would be accepted for it.                   *)
C25_Witness ==
    /\ last.op = "updateTransaction"
    /\ last.error = "none"
    /\ \E updates \in UpdateObjects :
           /\ {"amount", "type", "from_account_id"} \subseteq DOMAIN updates
           /\ updates.amount # transactions[last.data].amount
           /\ LET r == UpdateTransaction(DB, last.data, updates, NULL, 0)
              IN  /\ r.error = "none"
                  /\ r.db.transactions[last.data].amount = updates.amount

(***************************************************************************)
(* Two sessions writing entries at the same time.  A statement on          *)
(* transactions writes its row, then the FOR EACH ROW trigger runs its     *)
(* UPDATE accounts statements one after the other, then the statement      *)
(* commits.  An UPDATE of an accounts row waits while another statement    *)
(* that has updated the row is not finished, and then works on the row as  *)
(* it is stored.                                                           *)
(***************************************************************************)

(* The trigger's INSERT branch as the list of its UPDATE accounts          *)
(* statements: <<id, delta>> for SET balance = balance + delta.            *)
RowUpdatesOnInsert(new) ==
    IF new.type \in {"transfer", "debt_op"}
    THEN (IF new.from_account_id # NULL
          THEN << <<new.from_account_id, 0 - new.amount>> >> ELSE <<>>)
         \o (IF new.to_account_id # NULL
             THEN << <<new.to_account_id, new.amount>> >> ELSE <<>>)
    ELSE IF new.type = "expense" THEN << <<new.account_id, 0 - new.amount>> >>
    ELSE IF new.type = "income" THEN << <<new.account_id, new.amount>> >>
    ELSE <<>>

(* The DELETE branch (and the first half of the UPDATE branch). *)
RowUpdatesOnDelete(old) ==
    IF old.type \in {"transfer", "debt_op"}
    THEN (IF old.from_account_id # NULL
          THEN << <<old.from_account_id, old.amount>> >> ELSE <<>>)
         \o (IF old.to_account_id # NULL
             THEN << <<old.to_account_id, 0 - old.amount>> >> ELSE <<>>)
    ELSE IF old.type = "expense" THEN << <<old.account_id, old.amount>> >>
    ELSE IF old.type = "income" THEN << <<old.account_id, 0 - old.amount>> >>
    ELSE <<>>

RowUpdates(op, old, new) ==
    CASE op = "INSERT" -> RowUpdatesOnInsert(new)
      [] op = "UPDATE" -> IF old.amount # new.amount
                          THEN RowUpdatesOnDelete(old) \o RowUpdatesOnInsert(new)
                          ELSE <<>>
      [] op = "DELETE" -> RowUpdatesOnDelete(old)

(* An UPDATE that writes the balance the statement saw when it began plus  *)
(* its delta.                                                              *)
RowUpdateFromSnapshot(accs, snapshot, id, delta) ==
    IF id \in DOMAIN accs
    THEN [accs EXCEPT ![id].balance = snapshot[id] + delta]
    ELSE accs

(* UPDATE accounts SET balance = balance + delta WHERE id = ...: the       *)
(* balance read is the one stored when the row is written.                 *)
RowUpdate(accs, snapshot, id, delta) == AddBalance(accs, id, delta)

(* A statement of session c in progress: its row is written, `pending`     *)
(* are the trigger's updates still to run, `done` those that ran.          *)
Statement(op, id, old, new) ==
    [op |-> "statement", tg_op |-> op, id |-> id, old |-> old,
     pending |-> RowUpdates(op, old, new), done |-> <<>>,
     snapshot |-> [a \in DOMAIN accounts |-> accounts[a].balance]]

InProgress(c) == calls[c].op = "statement"

(* The accounts rows a session's statement has updated and keeps locked. *)
LockedBy(c) ==
    IF InProgress(c)
    THEN {calls[c].done[i][1] : i \in DOMAIN calls[c].done}
    ELSE {}

(* The entry another session's statement is writing. *)
RowsInProgress == {calls[c].id : c \in {x \in Clients : InProgress(x)}}

Begins(c, op, id, old, new) ==
    /\ calls[c] = Idle
    /\ calls' = [calls EXCEPT ![c] = Statement(op, id, old, new)]
    /\ UNCHANGED <<accounts, nextAccountId, last>>

(* createTransaction: the insert is sent. *)
beginCreateTransaction(c) ==
    \E type \in {"expense", "income", "transfer"}, amount \in ConcurrentAmounts,
       a \in OwnAccounts, b \in OwnAccounts :
        LET new == [TxRow(type, amount,
                          IF type = "transfer" THEN NULL ELSE a,
                          IF type = "transfer" THEN a ELSE NULL,
                          IF type = "transfer" THEN b ELSE NULL,
                          FALSE, "", NULL) EXCEPT !.created_at = nextTxId]
        IN  /\ type = "transfer" => a # b
            /\ nextTxId <= MaxConcurrent
            /\ Begins(c, "INSERT", nextTxId, new, new)
            /\ transactions' = (nextTxId :> new) @@ transactions
            /\ nextTxId' = nextTxId + 1

(* updateTransaction: the update of the amount is sent. *)
beginUpdateTransaction(c) ==
    \E id \in DOMAIN transactions \ RowsInProgress, amount \in Amounts :
        LET old == transactions[id]
            new == [old EXCEPT !.amount = amount]
        IN  /\ Begins(c, "UPDATE", id, old, new)
            /\ transactions' = [transactions EXCEPT ![id] = new]
            /\ UNCHANGED nextTxId

(* deleteTransaction: the delete is sent. *)
beginDeleteTransaction(c) ==
    \E id \in DOMAIN transactions \ RowsInProgress :
        /\ Begins(c, "DELETE", id, transactions[id], transactions[id])
        /\ transactions' = Remove(transactions, id)
        /\ UNCHANGED nextTxId

(* The next UPDATE accounts of the trigger, once the row is free. *)
rowUpdate(c) ==
    /\ InProgress(c)
    /\ calls[c].pending # <<>>
    /\ LET u == Head(calls[c].pending)
       IN  /\ \A other \in Clients \ {c} : u[1] \notin LockedBy(other)
           /\ accounts' = RowUpdate(accounts, calls[c].snapshot, u[1], u[2])
           /\ calls' = [calls EXCEPT ![c].pending = Tail(@),
                                     ![c].done = Append(@, u)]
    /\ UNCHANGED <<transactions, nextAccountId, nextTxId, last>>

(* The statement ends: its locks are gone and the caller has the answer. *)
commitStatement(c) ==
    /\ InProgress(c)
    /\ calls[c].pending = <<>>
    /\ calls' = [calls EXCEPT ![c] = Idle]
    /\ last' = [op |-> calls[c].tg_op, error |-> "none", data |-> calls[c].id,
                client |-> c]
    /\ UNCHANGED <<accounts, transactions, nextAccountId, nextTxId>>

(* The updates of a statement taken back, last one first. *)
RECURSIVE Undone(_, _)
Undone(accs, done) ==
    IF done = <<>> THEN accs
    ELSE Undone(AddBalance(accs, done[Len(done)][1], 0 - done[Len(done)][2]),
                SubSeq(done, 1, Len(done) - 1))

(* Each of two statements waits for a row the other has locked: the store  *)
(* ends one of them with an error and takes back what it wrote.            *)
deadlockDetected(c) ==
    /\ InProgress(c)
    /\ calls[c].pending # <<>>
    /\ \E other \in Clients \ {c} :
           /\ InProgress(other)
           /\ calls[other].pending # <<>>
           /\ Head(calls[c].pending)[1] \in LockedBy(other)
           /\ Head(calls[other].pending)[1] \in LockedBy(c)
    /\ accounts' = Undone(accounts, calls[c].done)
    /\ transactions' =
           CASE calls[c].tg_op = "INSERT" -> Remove(transactions, calls[c].id)
             [] calls[c].tg_op = "UPDATE" ->
                    [transactions EXCEPT ![calls[c].id] = calls[c].old]
             [] calls[c].tg_op = "DELETE" ->
                    (calls[c].id :> calls[c].old) @@ transactions
    /\ calls' = [calls EXCEPT ![c] = Idle]
    /\ last' = [op |-> calls[c].tg_op, error |-> "deadlock", data |-> NULL,
                client |-> c]
    /\ UNCHANGED <<nextAccountId, nextTxId>>

NextConcurrent ==
    \E c \in Clients :
        \/ beginCreateTransaction(c)
        \/ beginUpdateTransaction(c)
        \/ beginDeleteTransaction(c)
        \/ rowUpdate(c)
        \/ commitStatement(c)
        \/ deadlockDetected(c)

SpecConcurrent == Init /\ [][NextConcurrent]_vars

(* The deltas of account id that statements in progress have still to      *)
(* apply.                                                                  *)
RECURSIVE SumDeltas(_, _)
SumDeltas(updates, id) ==
    IF updates = <<>> THEN 0
    ELSE (IF Head(updates)[1] = id THEN Head(updates)[2] ELSE 0)
         + SumDeltas(Tail(updates), id)

PendingDelta(c, id) ==
    IF InProgress(c) THEN SumDeltas(calls[c].pending, id) ELSE 0

(***************************************************************************)
(* C26: with two sessions inserting, updating and deleting different       *)
(* entries in any interleaving, every account's balance is its balance at  *)
(* creation plus the net effect of the rows written, less the deltas that  *)
(* statements in progress have still to apply: no delta is lost.           *)
(***************************************************************************)
C26_ConcurrentDeltasCompose ==
    \A id \in DOMAIN accounts :
        accounts[id].balance + PendingDelta("c1", id) + PendingDelta("c2", id)
            = OpeningBalance(id) + NetEffect(transactions, id)

(* A statement has just committed that updated an account after the other  *)
(* session's statement, still in progress on another entry, had begun and  *)
(* updated the same account or has yet to update it.                       *)
C26_Witness ==
    \E c \in Clients : \E other \in Clients \ {c} :
        /\ last.client = c /\ last.error = "none" /\ last.op \in {"INSERT", "UPDATE", "DELETE"}
        /\ InProgress(other)
        /\ calls[other].id # last.data
        /\ \E id \in DOMAIN accounts :
               /\ accounts[id].balance # calls[other].snapshot[id]
               /\ PendingDelta(other, id) # 0

(***************************************************************************)
(* The debt operations as entry points of the module: the account ids are  *)
(* whatever the caller passes: any account that is stored and, as a        *)
(* counterparty account, an id that no account has.                        *)
(***************************************************************************)
lendAnyAccount ==
    \E amount \in AmountInputs, from \in DOMAIN accounts,
       counterparty \in CounterpartyInputs :
        Returns(Lend(DB, amount, from, counterparty, 0), "lend")

borrowAnyAccount ==
    \E amount \in AmountInputs, to \in DOMAIN accounts,
       counterparty \in CounterpartyInputs :
        Returns(Borrow(DB, amount, to, counterparty, 0), "borrow")

collectDebtAnyAccount ==
    \E amount \in AmountInputs, to \in DOMAIN accounts,
       cp \in DOMAIN accounts \cup {nextAccountId} :
        Returns(CollectDebt(DB, amount, to, cp, 0), "collectDebt")

collectDebtSmartAnyAccount ==
    \E amount \in AmountInputs, to \in DOMAIN accounts, cp \in DOMAIN accounts,
       closeDebt \in BOOLEAN :
        Returns(CollectDebtSmart(DB, amount, to, cp, closeDebt, 0),
                "collectDebtSmart")

repayDebtAnyAccount ==
    \E amount \in AmountInputs, from \in DOMAIN accounts,
       cp \in DOMAIN accounts \cup {nextAccountId} :
        Returns(RepayDebt(DB, amount, from, cp, 0), "repayDebt")

createExpenseWithDebtAnyAccount ==
    \E expenseAmount \in AmountInputs, debtAmount \in AmountInputs,
       accountId \in DOMAIN accounts, counterparty \in CounterpartyInputs :
        Returns(CreateExpenseWithDebt(DB, expenseAmount, accountId, debtAmount,
                                      counterparty, 0),
                "createExpenseWithDebt")

(* At most MaxDebtOps entries are written. *)
NextAnyAccount ==
    \/ lendAnyAccount /\ nextTxId' <= MaxDebtOps + 1
    \/ borrowAnyAccount /\ nextTxId' <= MaxDebtOps + 1
    \/ collectDebtAnyAccount /\ nextTxId' <= MaxDebtOps + 1
    \/ collectDebtSmartAnyAccount /\ nextTxId' <= MaxDebtOps + 1
    \/ repayDebtAnyAccount /\ nextTxId' <= MaxDebtOps + 1
    \/ createExpenseWithDebtAnyAccount /\ nextTxId' <= MaxDebtOps + 1

SpecAnyAccount == Init /\ [][NextAnyAccount]_vars

(* The account is stored as a counterparty's: a receivable or a liability. *)
IsCounterpartyAccount(accs, id) ==
    id \in DOMAIN accs /\ accs[id].type \in {"receivable", "liability"}

(***************************************************************************)
(* C27: every stored debt_op entry has exactly one of its source and       *)
(* destination accounts of kind receivable or liability.                   *)
(***************************************************************************)
C27_DebtOpOneCounterparty ==
    \A t \in DOMAIN transactions :
        transactions[t].type = "debt_op" =>
            IsCounterpartyAccount(accounts, transactions[t].from_account_id)
                # IsCounterpartyAccount(accounts, transactions[t].to_account_id)

(* Every entry of a store has a positive amount. *)
AmountsPositive(db) ==
    \A t \in DOMAIN db.transactions : db.transactions[t].amount > 0

MissingAccounts == (AccountIds \cup {nextAccountId}) \ DOMAIN accounts

RECURSIVE SumBalances(_, _)
SumBalances(accs, ids) ==
    IF ids = {} THEN 0
    ELSE LET id == CHOOSE x \in ids : TRUE
         IN  accs[id].balance + SumBalances(accs, ids \ {id})

(* asset + savings + receivable + liability *)
TotalBalance(accs) == SumBalances(accs, DOMAIN accs)

(***************************************************************************)
(* C30: a transfer, lend, borrow, collectDebt or repayDebt, with any       *)
(* stored accounts and whether or not its requests are answered, leaves    *)
(* the sum of all account balances what it was; an expense that is         *)
(* written lowers the sum by its amount and an income raises it by its     *)
(* amount.                                                                 *)
(***************************************************************************)
C30_MoneyOnlyMoves ==
    \A amount \in Amounts, a \in DOMAIN accounts, b \in DOMAIN accounts,
       counterparty \in CounterpartyInputs, f \in Failures :
        LET total    == TotalBalance(accounts)
            After(r) == TotalBalance(r.db.accounts)
            expense  == CreateTransaction(DB, "expense", amount, a, a, b, f)
            income   == CreateTransaction(DB, "income", amount, a, a, b, f)
        IN  /\ After(CreateTransaction(DB, "transfer", amount, a, a, b, f)) = total
            /\ After(Lend(DB, amount, a, counterparty, f)) = total
            /\ After(Borrow(DB, amount, a, counterparty, f)) = total
            /\ After(CollectDebt(DB, amount, a, b, f)) = total
            /\ After(RepayDebt(DB, amount, a, b, f)) = total
            /\ After(expense) = IF expense.error = "none" THEN total - amount
                                                          ELSE total
            /\ After(income) = IF income.error = "none" THEN total + amount
                                                        ELSE total

(* A collection or a repayment has just been written between an own        *)
(* account and a counterparty account after the loan it settles, and the   *)
(* balances are no longer the opening ones.                                *)
C30_Witness ==
    /\ last.op \in {"collectDebt", "repayDebt"} /\ last.error = "none"
    /\ Cardinality(DOMAIN transactions) = 2
    /\ LET tx == transactions[last.data]
       IN  /\ IsCounterpartyAccount(accounts, tx.related_account_id)
           /\ {tx.from_account_id, tx.to_account_id} \cap OwnAccounts # {}
    /\ \E id \in DOMAIN accounts : accounts[id].balance # OpeningBalance(id)

(***************************************************************************)
(* updateTransaction as an entry point of the module: the third argument   *)
(* is optional (expectedCreatedAt = null), and a caller may leave it out.  *)
(***************************************************************************)
updateTransactionWithoutToken ==
    \E id \in DOMAIN transactions, amount \in AmountInputs :
        Returns(UpdateTransaction(DB, id, [amount |-> amount], NULL, 0),
                "updateTransactionWithoutToken")

(* What the edit form sends when the amount field was left as it was: the  *)
(* amount of the entry with a date, a category and a note.                 *)
DetailUpdates ==
    {[date |-> d, category_id |-> c, note |-> n] :
        d \in {"today", "yesterday"}, c \in {NULL, 1}, n \in {"", "edited"}}

updateTransactionDetails ==
    \E id \in DOMAIN transactions, details \in DetailUpdates :
        Returns(UpdateTransaction(DB, id,
                    details @@ [amount |-> transactions[id].amount],
                    transactions[id].created_at, 0),
                "updateTransactionDetails")

NextUpdate ==
    \/ createTransaction /\ nextTxId' <= MaxEdited + 1
    \/ updateTransaction
    \/ updateTransactionWithoutToken
    \/ updateTransactionDetails

SpecUpdate == Init /\ [][NextUpdate]_vars

(***************************************************************************)
(* C31: an entry is updated only under a creation timestamp that matches   *)
(* the stored one: updateTransaction called without one changes neither    *)
(* the entries nor any balance.                                            *)
(***************************************************************************)
C31_NoTokenNoUpdate ==
    [][last'.op = "updateTransactionWithoutToken" =>
          /\ transactions' = transactions
          /\ accounts' = accounts]_vars

(***************************************************************************)
(* C32: an update of an entry's amount from a to b that is applied moves   *)
(* the balance of each account the entry touches by exactly the            *)
(* difference, -(b - a) on a source-like and +(b - a) on a                 *)
(* destination-like account, and leaves the balances that deleting the     *)
(* old entry and inserting it with amount b gives.                         *)
(***************************************************************************)
C32_UpdateIsDeleteThenInsert ==
    \A id \in DOMAIN transactions, b \in Amounts :
        LET old == transactions[id]
            new == [old EXCEPT !.amount = b]
            r   == UpdateTransaction(DB, id, [amount |-> b], old.created_at, 0)
        IN  r.error = "none" =>
                /\ r.db.transactions[id] = new
                /\ \A acc \in DOMAIN accounts :
                       r.db.accounts[acc].balance - accounts[acc].balance
                         = Effect(new, acc) - Effect(old, acc)
                /\ r.db.accounts
                     = update_account_balance("INSERT",
                           update_account_balance("DELETE", accounts, old, old),
                           new, new)

(* The amount of a debt_op entry between a liability and an own account    *)
(* has just been updated, and the other amount would be accepted too.      *)
C32_Witness ==
    /\ last.op = "updateTransaction" /\ last.error = "none"
    /\ transactions[last.data].type = "debt_op"
    /\ \E b \in Amounts :
           /\ b # transactions[last.data].amount
           /\ UpdateTransaction(DB, last.data, [amount |-> b],
                                transactions[last.data].created_at, 0).error = "none"

(***************************************************************************)
(* The branch collectDebtSmart takes, and the hint the form shows for the  *)
(* same amount, with amounts in thousandths of the currency unit: the      *)
(* form passes the number typed (parseFloat), the store keeps two          *)
(* decimals.                                                               *)
(***************************************************************************)

(* 0.01 in thousandths: the hint's threshold. *)
HintTolerance == 10

(* NUMERIC(15,2): a value is rounded to hundredths when it is stored. *)
Numeric2(milli) == ((milli + 5) \div 10) * 10

(* Stored balances of a receivable: whole hundredths. *)
StoredBalances == {b \in 0..MaxMilli : b % 10 = 0}

(* updateBalanceHint: what the form tells the user about the amount. *)
updateBalanceHint(amount, accountBalance) ==
    LET balance == Abs(accountBalance)
        diff    == amount - balance
    IN  IF diff > HintTolerance THEN "overpayment"
        ELSE IF diff < 0 - HintTolerance THEN "underpayment"
        ELSE "exact"

(* The rows a branch of collectDebtSmart sends, by debt_direction or type, *)
(* as the store keeps them; an insert whose amount rounds to 0 is refused  *)
(* by CHECK (amount > 0) and ends the branch.                              *)
SmartRows(amount, balance, closeDebt) ==
    LET case == collectDebtSmartCase(amount, balance, closeDebt)
        sent == IF case = "overpayment"
                THEN << <<"return", balance>>, <<"income", amount - balance>> >>
                ELSE IF case = "forced_closure"
                THEN << <<"return", amount>>, <<"forgive", balance - amount>> >>
                ELSE << <<"return", amount>> >>
        kept == [i \in DOMAIN sent |-> <<sent[i][1], Numeric2(sent[i][2])>>]
    IN  IF \A i \in DOMAIN kept : kept[i][2] > 0 THEN kept
        ELSE IF kept[1][2] > 0 THEN <<kept[1]>>
        ELSE <<>>

InitAmounts ==
    /\ accounts = (1 :> AccountRow("asset", 0, "")) @@
                  (2 :> AccountRow("savings", InitialSavings, ""))
    /\ transactions = <<>>
    /\ nextAccountId = 3
    /\ nextTxId = 1
    /\ calls = [c \in Clients |-> Idle]
    /\ \E amount \in 1..MaxMilli, balance \in StoredBalances, closeDebt \in BOOLEAN :
           last = [op |-> "typed", amount |-> amount, balance |-> balance,
                   closeDebt |-> closeDebt]

(* The form is submitted with the amount typed. *)
submitCollectDebtSmart ==
    /\ last.op = "typed"
    /\ last' = [op |-> "collectDebtSmart", amount |-> last.amount,
                balance |-> last.balance, closeDebt |-> last.closeDebt,
                hint |-> updateBalanceHint(last.amount, last.balance),
                rows |-> SmartRows(last.amount, last.balance, last.closeDebt)]
    /\ UNCHANGED <<accounts, transactions, nextAccountId, nextTxId, calls>>

NextAmounts == submitCollectDebtSmart

SpecAmounts == InitAmounts /\ [][NextAmounts]_vars

(***************************************************************************)
(* C33: collectDebtSmart called with an amount within 0.01 of the          *)
(* outstanding balance writes the single return entry and nothing else:    *)
(* neither an excess income entry nor a forgiveness entry.                 *)
(***************************************************************************)
C33_WithinToleranceIsExact ==
    (/\ last.op = "collectDebtSmart"
     /\ last.balance > 0
     /\ Abs(last.amount - last.balance) < HintTolerance)
        => /\ Len(last.rows) <= 1
           /\ \A i \in DOMAIN last.rows : last.rows[i][1] = "return"

(* The entries handleCascadeDelete deletes for an account, in its order,   *)
(* when getTransactions is answered.                                       *)
RelatedTx(db, accountId) ==
    SelectSeq(getTransactions(db, CascadeLimit, TRUE),
              LAMBDA t : \/ db.transactions[t].related_account_id = accountId
                         \/ db.transactions[t].from_account_id = accountId
                         \/ db.transactions[t].to_account_id = accountId)

(* The answers of the cascade's deletes, one after the other, when every   *)
(* request reaches the store.                                              *)
RECURSIVE DeleteReplies(_, _)
DeleteReplies(db, ids) ==
    IF ids = <<>> THEN <<>>
    ELSE LET r == DeleteTransactionRow(db, Head(ids), TRUE)
         IN  <<r>> \o DeleteReplies(r.db, Tail(ids))

(* receivable >= 0, liability <= 0, for one account (if it is stored). *)
SignHolds(accs, id) ==
    id \in DOMAIN accs =>
        /\ accs[id].type = "receivable" => accs[id].balance >= 0
        /\ accs[id].type = "liability" => accs[id].balance <= 0

(***************************************************************************)
(* C34: when handleCascadeDelete runs for a counterparty account, none of  *)
(* its deletes, newest entry first, is refused by a constraint, and after  *)
(* each of them the account satisfies its sign invariant.                  *)
(***************************************************************************)
C34_CascadeMeetsNoConstraint ==
    [][last'.op = "handleCascadeDelete" =>
          LET accountId == calls["c1"].accountId
              replies   == DeleteReplies(DB, RelatedTx(DB, accountId))
          IN  \A i \in DOMAIN replies :
                  /\ replies[i].error # "check"
                  /\ SignHolds(replies[i].db.accounts, accountId)]_vars

(***************************************************************************)
(* forgiveDebt with every await as a step: the select of the counterparty  *)
(* account, the insert of the forgiveness entry computed from the balance  *)
(* that was read, and the update that closes the account.  Between the     *)
(* steps the user's other session lends, borrows, collects or repays.      *)
(***************************************************************************)
Forgiving(cp, remainingAmount) ==
    [op |-> "forgiveDebt", pc |-> "insert", cp |-> cp,
     remainingAmount |-> remainingAmount, data |-> NULL]

beginForgiveDebt(c) ==
    \E cp \in Receivables \cup Liabilities :
        /\ calls[c].op = "idle"
        /\ LET remainingAmount == Abs(accounts[cp].balance)
           IN  IF remainingAmount < SettledBelow
               THEN Finishes(c, Reply(DB, "settled", NULL), "forgiveDebt")
               ELSE /\ calls' = [calls EXCEPT ![c] = Forgiving(cp, remainingAmount)]
                    /\ UNCHANGED <<accounts, transactions, nextAccountId,
                                   nextTxId, last>>

insertForgiveness(c) ==
    /\ calls[c].op = "forgiveDebt"
    /\ calls[c].pc = "insert"
    /\ LET tx == InsertTransaction(DB,
                     ForgiveRow(calls[c].remainingAmount, calls[c].cp), TRUE)
       IN  IF tx.error # "none" THEN Finishes(c, tx, "forgiveDebt")
           ELSE /\ Stores(tx.db)
                /\ tx.db.nextTxId <= MaxTx + 1
                /\ calls' = [calls EXCEPT ![c] = [calls[c] EXCEPT !.pc = "update",
                                                                  !.data = tx.data]]
                /\ UNCHANGED last

closeForgiven(c) ==
    /\ calls[c].op = "forgiveDebt"
    /\ calls[c].pc = "update"
    /\ Finishes(c, Reply(UpdateAccountRow(DB, calls[c].cp,
                             [status |-> "closed", balance |-> 0], TRUE).db,
                         "none", calls[c].data),
                "forgiveDebt")

NextForgive ==
    \/ lend
    \/ borrow
    \/ collectDebt
    \/ repayDebt
    \/ \E c \in Clients : beginForgiveDebt(c)
    \/ \E c \in Clients : insertForgiveness(c)
    \/ \E c \in Clients : closeForgiven(c)

SpecForgive == Init /\ [][NextForgive]_vars

(***************************************************************************)
(* C35: whatever the other session does between forgiveDebt's read and its *)
(* write, the forgiveness entry is written with the amount the             *)
(* counterparty account owes at the moment of the write.                   *)
(***************************************************************************)
C35_ForgivenIsOutstanding ==
    [][(/\ nextTxId' = nextTxId + 1
        /\ transactions'[nextTxId].debt_direction = "forgive")
          => transactions'[nextTxId].amount =
                 Abs(accounts[transactions'[nextTxId].account_id].balance)]_vars

(***************************************************************************)
(* C36: once a forgiveness entry has been written, every receivable and    *)
(* every liability account still holds the net effect of the existing      *)
(* entries that reference it, whatever obligation operations ran before    *)
(* and after forgiveDebt.                                                  *)
(***************************************************************************)
C36_ForgivenBalanceIsNetEffect ==
    (\E t \in DOMAIN transactions : transactions[t].debt_direction = "forgive")
        => \A id \in Receivables \cup Liabilities :
               accounts[id].balance = NetEffect(transactions, id)

(***************************************************************************)
(* C37: an account with status closed has balance 0 in every reachable     *)
(* state, whatever is lent, borrowed, collected, repaid or deleted after   *)
(* it was closed.                                                          *)
(***************************************************************************)
C37_ClosedAccountIsSettled ==
    \A id \in DOMAIN accounts :
        accounts[id].status = "closed" => accounts[id].balance = 0

(***************************************************************************)
(* C38: whichever branch collectDebtSmart takes (overpayment, forced       *)
(* closure, normal), when it returns without an error the destination      *)
(* account holds exactly the paid amount more than before the call.        *)
(***************************************************************************)
C38_DestinationGetsPaidAmount ==
    \A amount \in AmountInputs, to \in OwnAccounts, cp \in Receivables,
       closeDebt \in BOOLEAN, f \in Failures :
        LET r == CollectDebtSmart(DB, amount, to, cp, closeDebt, f)
        IN  r.error = "none" =>
                r.db.accounts[to].balance = accounts[to].balance + amount

(* collectDebtSmart has just booked an overpayment: a return that closes   *)
(* the debt and an income for the excess.                                  *)
C38_Witness ==
    /\ last.op = "collectDebtSmart" /\ last.error = "none"
    /\ nextTxId = MaxTx + 1
    /\ MaxTx \in DOMAIN transactions /\ MaxTx - 1 \in DOMAIN transactions
    /\ transactions[MaxTx].type = "income"
    /\ transactions[MaxTx - 1].debt_direction = "return"
    /\ transactions[MaxTx].amount + transactions[MaxTx - 1].amount = MaxAmount

(***************************************************************************)
(* C39: an update that changes the date, the category or the note of an    *)
(* entry and sends no amount, or the amount the entry has, leaves every    *)
(* account balance as it was.                                              *)
(***************************************************************************)
C39_DetailUpdateKeepsBalances ==
    \A id \in DOMAIN transactions, details \in DetailUpdates,
       withAmount \in BOOLEAN :
        LET updates == IF withAmount
                       THEN details @@ [amount |-> transactions[id].amount]
                       ELSE details
            r == UpdateTransaction(DB, id, updates, transactions[id].created_at, 0)
        IN  /\ r.error = "none"
            /\ \A c \in DOMAIN details : r.db.transactions[id][c] = details[c]
            /\ r.db.transactions[id].amount = transactions[id].amount
            /\ r.db.accounts = accounts

(* The date, the category and the note of an entry that moved a balance    *)
(* have just been updated.                                                 *)
C39_Witness ==
    /\ last.op = "updateTransactionDetails" /\ last.error = "none"
    /\ transactions[last.data].date = "yesterday"
    /\ transactions[last.data].category_id # NULL
    /\ transactions[last.data].note = "edited"
    /\ \E id \in DOMAIN accounts : accounts[id].balance # OpeningBalance(id)

(***************************************************************************)
(* C40: forgiveDebt on a counterparty account that owes less than one      *)
(* hundredth returns the 'already settled' error, writes no entry and      *)
(* leaves the account's status and balance (and the rest of the store) as  *)
(* they were.                                                              *)
(***************************************************************************)
C40_SettledNotForgiven ==
    \A cp \in Receivables \cup Liabilities :
        Abs(accounts[cp].balance) < SettledBelow =>
            LET r == ForgiveDebt(DB, cp, 0)
            IN  /\ r.error = "settled"
                /\ r.data = NULL
                /\ r.db.transactions = transactions
                /\ r.db.accounts = accounts

(* forgiveDebt has just answered 'already settled' for an account that was *)
(* lent to and collected from in full, and that is still active.           *)
C40_Witness ==
    /\ last.op = "forgiveDebt" /\ last.error = "settled"
    /\ \E cp \in Receivables :
           /\ accounts[cp].balance = 0
           /\ accounts[cp].status = "active"
           /\ \E t \in DOMAIN transactions :
                  transactions[t].related_account_id = cp

====
